---- MODULE Spec2Model ----
(***************************************************************************)
(* Model of aos8_aos10_tool.py: the SSH orchestration workflows (prepare,  *)
(* convert-init, add-AP-group, cleanup) over the discovered fleet, and the *)
(* AP conversion monitor loop.                                             *)
(*                                                                         *)
(* A remote response is the set of the text markers it contains: the code  *)
(* only ever tests responses for substring containment.                    *)
(***************************************************************************)
EXTENDS Integers, Sequences, FiniteSets, TLC

\* ------------------------------------------------------------------ bounds
MaxControllers == 2
MaxDiscoveries == 1
MaxCycles == 3
MaxChunks == 3

\* ------------------------------------------------------- input alphabets
NodePaths == <<"/md/a", "/md/b">>
ClusterNames == {"A", "B"}
Unknown == "Unknown"
TypedNames == {"A", "X"}
FoundNames == {"B"}
NoMatch == "NoMatch"
ApGroupPool == {"g1"}
MM == <<"mm">>

\* the text markers the code looks for in a response
ProfileMarkers ==
    {"Classic Controller Cluster Profile", "(lc-cluster-profile)",
     "(LC-CLUSTER-PROFILE)", "lc-cluster-profile"}
ConfirmPhrase == "Do you want to proceed with the operation? [y/n]:"
WarningMark == "WARNING:"
ErrorColon == "Error:"
ErrorWord == "Error"
InvalidWord == "Invalid"

\* "Error:" contains "Error"; "(lc-cluster-profile)" contains
\* "lc-cluster-profile": a response is closed under substring containment
Closure(r) ==
    r \cup (IF ErrorColon \in r THEN {ErrorWord} ELSE {})
      \cup (IF "(lc-cluster-profile)" \in r THEN {"lc-cluster-profile"} ELSE {})

ProfileResponses ==
    { Closure(r) : r \in { {}, {"(lc-cluster-profile)"}, {ErrorColon},
                           {"(LC-CLUSTER-PROFILE)", ErrorColon}, {InvalidWord} } }
ConfirmResponses ==
    { {}, {ConfirmPhrase}, {WarningMark, ConfirmPhrase} }
ConfigResponses == { {}, Closure({ErrorColon}) }
PlainResponses == { {} }

NoneTarget == [nodepath |-> "None", cluster_name |-> "None"]
NoSession == <<>>
MC(name) == <<"mc", name>>

VARIABLES
    \* process globals and the sqlite tables
    stored_md_switches, dbControllers, dbClusters, dbApGroups,
    selected_cluster, selected_ap_groups, prep_migration_target,
    discoveries,
    \* the running workflow and its locals
    pc, selected_nodepath, cluster_name, in_cluster_context,
    controllers, idx, success_count, failed_controllers,
    clusters_info, lc_restoration_success, selected_group,
    \* the remote side: the open session and what was sent on it
    session, sent,
    \* observations of the run
    marked, attempted, succeeded, warned, report, startTarget, startGroups,
    lastOp, dbAtPrep,
    \* the connections that are open on the remote side
    open_sessions,
    \* monitor_ap_conversion: the flag, the loop position and its locals
    monitoring_active, m_pc, mon_controllers, all_time_aps, completed_aps,
    previous_converting, current_converting, controller_status,
    check_count, current_time, cidx, cycle_before, converting_bound,
    final_summary,
    \* read_ssh_output: the loop position, the chunks the remote side delivers,
    \* the next one to arrive, the text accumulated, the time since start_time
    r_pc, r_stream, r_next, r_output, r_elapsed,
    \* parse_ap_convert_status: the payload, the AP list returned, the position
    convert_status_data, converting_aps, parse_pc,
    \* store_lc_cluster: the rows of table lc_clusters, in insertion order, and
    \* what the latest call for each controller wrote and how many rows it deleted
    lc_clusters, latest,
    \* track_conversion_progress called on its own: all_time_data, per
    \* controller what the calls so far carried, and the number of calls
    track_data, track_seen, track_calls,
    \* ssh_to_mm: the position in the call, whether the client's connection
    \* to the host is open, and what the call returned
    k_pc, client_open, k_result

globalVars == <<stored_md_switches, dbControllers, dbClusters, dbApGroups,
                selected_cluster, selected_ap_groups, prep_migration_target,
                discoveries>>
dbVars == <<stored_md_switches, dbControllers, dbClusters, dbApGroups, discoveries>>
localVars == <<selected_nodepath, cluster_name, in_cluster_context,
               controllers, idx, success_count, failed_controllers,
               clusters_info, lc_restoration_success, selected_group>>
remoteVars == <<session, sent>>
runObs == <<marked, attempted, succeeded, warned, report, startTarget, startGroups,
            lastOp, dbAtPrep>>
obsVars == <<runObs, open_sessions>>
orchVars == <<globalVars, pc, localVars, remoteVars, obsVars>>
monVars == <<monitoring_active, m_pc, mon_controllers, all_time_aps, completed_aps,
             previous_converting, current_converting, controller_status,
             check_count, current_time, cidx, cycle_before, converting_bound,
             final_summary>>
readVars == <<r_pc, r_stream, r_next, r_output, r_elapsed>>
parseVars == <<convert_status_data, converting_aps, parse_pc>>
storeVars == <<lc_clusters, latest>>
trackVars == <<track_data, track_seen, track_calls>>
connVars == <<k_pc, client_open, k_result>>
pureVars == <<parseVars, storeVars, trackVars, connVars>>
sideVars == <<monVars, readVars, pureVars>>
vars == <<orchVars, monVars, readVars, pureVars>>

\* ------------------------------------------------------------- helpers
Range(s) == { s[i] : i \in 1..Len(s) }
Last(s) == s[Len(s)]

\* any(x in output for x in [...the four profile markers...])
InProfileContext(resp) == resp \cap ProfileMarkers # {}

\* "Error:" in output or "Invalid" in output
HasErrorColon(resp) == ErrorColon \in resp \/ InvalidWord \in resp

\* "Error" in output or "Invalid" in output
HasError(resp) == ErrorWord \in resp \/ InvalidWord \in resp

HasConfirm(resp) == ConfirmPhrase \in resp

NoReport == [workflow |-> "none", success |-> 0, total |-> 0,
             failed |-> <<>>, lists_failed |-> FALSE, restoration |-> "none"]

NoRow == "NoRow"
\* what discovery reads as the cluster of the i-th controller, by fleet shape
ClusterShapes == {"one", "two", "unresolved", "partly"}
ClusterFetch(shape, i) ==
    CASE shape = "one" -> "A"
      [] shape = "two" -> (IF i % 2 = 1 THEN "A" ELSE "B")
      [] shape = "unresolved" -> Unknown
      [] shape = "partly" -> (IF i = 1 THEN "A" ELSE Unknown)
GroupFetch == { ApGroupPool }

\* ---------------------------------------------------- Fleet Directory
RECURSIVE Distinct(_)
Distinct(s) ==
    IF s = <<>> THEN <<>>
    ELSE LET r == Distinct(SubSeq(s, 1, Len(s) - 1))
         IN IF Last(s) \in Range(r) THEN r ELSE Append(r, Last(s))

\* the row ids 1..n in row order (the SELECTs below filter them)
RowIds(n) == [i \in 1..n |-> i]

Resolved(c) == c # Unknown /\ c # NoRow

\* INSERT a new controller row, or UPDATE the row with the same address
store_controller(rows, c) ==
    IF \E j \in 1..Len(rows) : rows[j].name = c.name
    THEN [j \in 1..Len(rows) |-> IF rows[j].name = c.name THEN c ELSE rows[j]]
    ELSE Append(rows, c)

RECURSIVE StoreControllers(_, _)
StoreControllers(rows, md) ==
    IF md = <<>> THEN rows
    ELSE StoreControllers(store_controller(rows, Head(md)), Tail(md))

\* DELETE the controller's membership, INSERT the new one
store_lc_cluster(cl, id, name) == [cl EXCEPT ![id] = name]

ControllerId(rows, name) == CHOOSE j \in 1..Len(rows) : rows[j].name = name

RECURSIVE StoreClusters(_, _, _, _)
\* step 2 of discovery: one store_lc_cluster per discovered controller
StoreClusters(cl, rows, md, shape) ==
    IF md = <<>> THEN cl
    ELSE StoreClusters(
            store_lc_cluster(cl, ControllerId(rows, Last(md).name),
                             ClusterFetch(shape, Last(md).name)),
            rows, SubSeq(md, 1, Len(md) - 1), shape)

get_all_controllers ==
    [j \in 1..Len(dbControllers) |->
        [id |-> j, name |-> dbControllers[j].name, nodepath |-> dbControllers[j].nodepath]]

get_controllers_by_cluster(c) ==
    LET keep(j) == dbClusters[j] = c
        ids == SelectSeq(RowIds(Len(dbControllers)), keep)
    IN [k \in 1..Len(ids) |-> get_all_controllers[ids[k]]]

get_clusters_for_nodepath(np) ==
    LET keep(j) == dbControllers[j].nodepath = np /\ Resolved(dbClusters[j])
        ids == SelectSeq(RowIds(Len(dbControllers)), keep)
    IN Distinct([k \in 1..Len(ids) |-> dbClusters[ids[k]]])

get_all_clusters_with_nodepaths ==
    LET keep(j) == Resolved(dbClusters[j])
        ids == SelectSeq(RowIds(Len(dbControllers)), keep)
    IN Distinct([k \in 1..Len(ids) |->
                    <<dbClusters[ids[k]], dbControllers[ids[k]].nodepath>>])

\* SELECT DISTINCT cluster_name FROM lc_clusters
get_all_cluster_names_including_unknown ==
    LET keep(j) == dbClusters[j] # NoRow
        ids == SelectSeq(RowIds(Len(dbControllers)), keep)
    IN Distinct([k \in 1..Len(ids) |-> dbClusters[ids[k]]])

\* ... WHERE cluster_name != 'Unknown' AND cluster_name IS NOT NULL
M_get_available_clusters_KeepsUnknown == get_all_cluster_names_including_unknown
get_available_clusters ==
    LET keep(j) == Resolved(dbClusters[j])
        ids == SelectSeq(RowIds(Len(dbControllers)), keep)
    IN Distinct([k \in 1..Len(ids) |-> dbClusters[ids[k]]])

get_ap_groups_for_controller(id) == dbApGroups[id]

\* ------------------------------------------------------------ start state
IdleLocals ==
    /\ selected_nodepath = "" /\ cluster_name = "" /\ in_cluster_context = FALSE
    /\ controllers = <<>> /\ idx = 0 /\ success_count = 0
    /\ failed_controllers = <<>> /\ clusters_info = <<>>
    /\ lc_restoration_success = FALSE /\ selected_group = ""
    /\ session = NoSession /\ sent = <<>>
    /\ marked = {} /\ attempted = <<>> /\ succeeded = <<>> /\ warned = FALSE /\ report = NoReport
    /\ startTarget = NoneTarget /\ startGroups = <<>> /\ open_sessions = {}

\* no monitor has run in this process
MonitorOff ==
    /\ monitoring_active = FALSE /\ m_pc = "m_off" /\ mon_controllers = <<>>
    /\ all_time_aps = <<>> /\ completed_aps = {} /\ previous_converting = {}
    /\ current_converting = {} /\ controller_status = <<>>
    /\ check_count = 0 /\ current_time = 0 /\ cidx = 0 /\ cycle_before = {}
    /\ converting_bound = FALSE /\ final_summary = <<>>

\* no read_ssh_output call is under observation
ReadOff ==
    /\ r_pc = "r_idle" /\ r_stream = <<>> /\ r_next = 1
    /\ r_output = <<>> /\ r_elapsed = 0

\* no track_conversion_progress call on its own, no ssh_to_mm call
TrackOff == track_data = <<>> /\ track_seen = <<>> /\ track_calls = 0
ConnOff == k_pc = "k_off" /\ client_open = FALSE /\ k_result = "none"

\* no parse_ap_convert_status or store_lc_cluster call is under observation
PureOff ==
    /\ convert_status_data = <<>> /\ converting_aps = <<>> /\ parse_pc = "off"
    /\ lc_clusters = <<>> /\ latest = <<>>
    /\ TrackOff /\ ConnOff

Init ==
    /\ stored_md_switches = <<>> /\ dbControllers = <<>> /\ dbClusters = <<>>
    /\ dbApGroups = <<>> /\ selected_cluster = "" /\ selected_ap_groups = <<>>
    /\ prep_migration_target = NoneTarget /\ discoveries = 0
    /\ pc = "idle" /\ IdleLocals
    /\ lastOp = "other" /\ dbAtPrep = <<>>
    /\ MonitorOff
    /\ ReadOff
    /\ PureOff

\* the workflow returns to the menu: its locals are gone
Return(op) ==
    /\ pc' = "idle"
    /\ selected_nodepath' = "" /\ cluster_name' = "" /\ in_cluster_context' = FALSE
    /\ controllers' = <<>> /\ idx' = 0 /\ success_count' = 0
    /\ failed_controllers' = <<>> /\ clusters_info' = <<>>
    /\ lc_restoration_success' = FALSE /\ selected_group' = ""
    /\ session' = NoSession /\ sent' = <<>>
    /\ marked' = {} /\ attempted' = <<>> /\ succeeded' = <<>> /\ warned' = FALSE /\ report' = NoReport
    /\ startTarget' = NoneTarget /\ startGroups' = <<>> /\ open_sessions' = {}
    /\ lastOp' = op
    /\ dbAtPrep' = IF op = "prepare" THEN dbAtPrep ELSE <<>>

\* ------------------------------------------------- run_all_steps (option 1)
Discovery ==
    /\ UNCHANGED sideVars
    /\ pc = "idle" /\ discoveries < MaxDiscoveries
    /\ \E n \in 1..MaxControllers, k \in 1..MaxControllers,
          shape \in ClusterShapes, grp \in GroupFetch :
        /\ k <= n
        /\ LET md == [i \in 1..n |->
                        [name |-> i,
                         nodepath |-> IF i <= k THEN NodePaths[1] ELSE NodePaths[2]]]
               rows == StoreControllers(dbControllers, md)
               cl == [j \in 1..Len(rows) |->
                        IF j <= Len(dbClusters) THEN dbClusters[j] ELSE NoRow]
           IN /\ stored_md_switches' = md
              /\ dbControllers' = rows
              /\ dbClusters' = StoreClusters(cl, rows, md, shape)
              /\ dbApGroups' =
                    [j \in 1..Len(rows) |->
                        IF rows[j].name <= n THEN grp
                        ELSE IF j <= Len(dbApGroups) THEN dbApGroups[j] ELSE {}]
    /\ discoveries' = discoveries + 1
    /\ lastOp' = "other" /\ dbAtPrep' = <<>>
    /\ UNCHANGED <<selected_cluster, selected_ap_groups, prep_migration_target,
                   pc, localVars, remoteVars, marked, attempted, succeeded, warned,
                   report, startTarget, startGroups, open_sessions>>

\* -------------------------------------------------- send_ssh_command
Cmd(c, a) == [cmd |-> c, arg |-> a]

\* the replies the code tests for "Error" / "Invalid": those of the two
\* re-enable commands of Phase 2
ErrorTested == {"redundancy", "active-ap-lb"}

\* what the session saw: the line sent, whether its reply was returned to
\* the caller, whether the reply carried the confirmation phrase, and for a
\* re-enable command whether it carried an error marker
Exchange(c, resp) ==
    [cmd |-> c.cmd, arg |-> c.arg, answered |-> TRUE, prompt |-> HasConfirm(resp),
     error |-> (c.cmd \in ErrorTested /\ HasError(resp))]

\* a line that left before send_ssh_command raised
Unanswered(c) ==
    [cmd |-> c.cmd, arg |-> c.arg, answered |-> FALSE, prompt |-> FALSE,
     error |-> FALSE]

\* shell.send(command) then read_ssh_output: the captured text is returned
\* to the caller, which inspects it before the next send
send_ssh_command(c, resp) == sent' = Append(sent, Exchange(c, resp))

\* send or recv raises: the line may or may not have left before the error
SendRaises(c) == sent' \in {sent, Append(sent, Unanswered(c))}

\* ------------------------------------------------------ read_ssh_output
\* Time is counted in tenths of a second, the length of the sleep between
\* two polls of the channel.
Ceiling == 50
SleepTenths == 1

\* what the channel delivers: bytes, some of them not valid UTF-8
Bytes == {"a", "#", ">", "bad"}
Chunks == { <<"a">>, <<"a", "#">>, <<">", "a">>, <<"bad">>, <<"bad", "#">> }
RECURSIVE Streams(_)
Streams(n) ==
    IF n = 0 THEN { <<>> }
    ELSE Streams(n - 1) \cup
         { Append(st, c) : st \in { x \in Streams(n - 1) : Len(x) = n - 1 }, c \in Chunks }

ValidByte(b) == b # "bad"
\* chunk.decode('utf-8', errors='ignore')
decode(chunk) == SelectSeq(chunk, ValidByte)

\* "#" in chunk or ">" in chunk
M_HasPrompt_HashOnly(text) == "#" \in Range(text)
HasPrompt(text) == "#" \in Range(text) \/ ">" \in Range(text)

\* time.sleep(wait_time); output = ""; start_time = time.time()
ReadStart ==
    /\ r_pc = "r_idle"
    /\ r_pc' = "r_loop" /\ r_output' = <<>> /\ r_elapsed' = 0 /\ r_next' = 1
    /\ UNCHANGED <<orchVars, monVars, pureVars, r_stream>>

\* recv_ready() is true: recv, decode, append, stop on a prompt
ReadChunk ==
    /\ r_pc = "r_loop" /\ r_elapsed < Ceiling
    /\ r_next <= Len(r_stream)
    /\ r_output' = r_output \o decode(r_stream[r_next])
    /\ r_next' = r_next + 1
    /\ r_pc' = IF HasPrompt(decode(r_stream[r_next])) THEN "r_done" ELSE "r_loop"
    /\ r_elapsed' \in {r_elapsed, r_elapsed + SleepTenths}
    /\ UNCHANGED <<orchVars, monVars, pureVars, r_stream>>

\* recv_ready() is false (nothing has arrived yet, or nothing is left):
\* time.sleep(0.1)
ReadWait ==
    /\ r_pc = "r_loop" /\ r_elapsed < Ceiling
    /\ r_elapsed' = r_elapsed + SleepTenths
    /\ UNCHANGED <<orchVars, monVars, pureVars, r_pc, r_stream, r_next, r_output>>

\* the while condition fails: return output
ReadTimeout ==
    /\ r_pc = "r_loop" /\ r_elapsed >= Ceiling
    /\ r_pc' = "r_done"
    /\ UNCHANGED <<orchVars, monVars, pureVars, r_stream, r_next, r_output, r_elapsed>>

read_ssh_output == ReadStart \/ ReadChunk \/ ReadWait \/ ReadTimeout

\* one call of read_ssh_output on a shell that delivers any stream of at
\* most MaxChunks chunks
InitRead ==
    /\ stored_md_switches = <<>> /\ dbControllers = <<>> /\ dbClusters = <<>>
    /\ dbApGroups = <<>> /\ selected_cluster = "" /\ selected_ap_groups = <<>>
    /\ prep_migration_target = NoneTarget /\ discoveries = 0
    /\ pc = "idle" /\ IdleLocals
    /\ lastOp = "other" /\ dbAtPrep = <<>>
    /\ MonitorOff
    /\ r_pc = "r_idle" /\ r_stream \in Streams(MaxChunks) /\ r_next = 1
    /\ r_output = <<>> /\ r_elapsed = 0
    /\ PureOff

\* the loop is sequential code: a step that can be taken is taken
SpecRead == InitRead /\ [][read_ssh_output]_vars /\ WF_vars(read_ssh_output)

\* ------------------------------------------------------------ ssh_to_mm
Raised == <<"raised">>

\* connect, invoke_shell and the first read run once, inside one
\* try/except Exception: the call returns the session, or (None, None)
M_ssh_to_mm_Raises(host) == {host, Raised}
ssh_to_mm(host) == {host, NoSession}

\* the caller holds the session that ssh_to_mm returned
Connected(s) ==
    session' = s /\ sent' = <<>> /\ open_sessions' = open_sessions \cup {s}

\* an exception out of ssh_to_mm is outside every try of the caller and of
\* main(): the process ends
Aborted == pc' = "aborted" /\ UNCHANGED <<session, sent, open_sessions>>

\* ssh_client.close() in the finally of the caller
M_CloseSession_Forgotten == session' = NoSession /\ UNCHANGED open_sessions
CloseSession == session' = NoSession /\ open_sessions' = open_sessions \ {session}

\* ------------------------------------------ prep_migration_ssh (option 2)
PrepPlainPcs ==
    {"p_cfgnode", "p_conf", "p_f1_exit", "p_f1_conf",
     "p_nolb", "p_nored", "p_exit1", "p_exit2", "p_write"}
PrepSendPcs ==
    PrepPlainPcs \cup {"p_profile", "p_f1_show", "p_f1_profile", "p_f2_profile"}
PrepPcs == PrepSendPcs \cup {"p_connect", "p_fallback", "p_record", "p_close", "p_done"}

PrepCmd(at) ==
    CASE at = "p_cfgnode" -> Cmd("change-config-node", selected_nodepath)
      [] at \in {"p_conf", "p_f1_conf"} -> Cmd("configure terminal", "")
      [] at \in {"p_profile", "p_f1_profile", "p_f2_profile"} ->
            Cmd("lc-cluster group-profile", cluster_name)
      [] at \in {"p_f1_exit", "p_exit1", "p_exit2"} -> Cmd("exit", "")
      [] at = "p_f1_show" -> Cmd("show lc-cluster group-membership", "")
      [] at = "p_nolb" -> Cmd("no active-ap-lb", "")
      [] at = "p_nored" -> Cmd("no redundancy", "")
      [] at = "p_write" -> Cmd("write memory", "")

M_PrepAfter_NoSave(at) ==
    CASE at = "p_cfgnode" -> "p_conf"
      [] at = "p_conf" -> "p_profile"
      [] at = "p_f1_exit" -> "p_f1_show"
      [] at = "p_f1_conf" -> "p_f1_profile"
      [] at = "p_nolb" -> "p_nored"
      [] at = "p_nored" -> "p_exit1"
      [] at = "p_exit1" -> "p_exit2"
      [] at = "p_exit2" -> "p_record"
      [] at = "p_write" -> "p_record"
PrepAfter(at) ==
    CASE at = "p_cfgnode" -> "p_conf"
      [] at = "p_conf" -> "p_profile"
      [] at = "p_f1_exit" -> "p_f1_show"
      [] at = "p_f1_conf" -> "p_f1_profile"
      [] at = "p_nolb" -> "p_nored"
      [] at = "p_nored" -> "p_exit1"
      [] at = "p_exit1" -> "p_exit2"
      [] at = "p_exit2" -> "p_write"
      [] at = "p_write" -> "p_record"

StoredNodepaths == { stored_md_switches[i].nodepath : i \in 1..Len(stored_md_switches) }

\* the cluster names the operator can end up with for a nodepath
PrepClusterChoices(np) ==
    IF get_clusters_for_nodepath(np) = <<>> THEN TypedNames
    ELSE Range(get_clusters_for_nodepath(np))

\* nodepath and cluster selection, up to the final confirmation
PrepStart ==
    /\ UNCHANGED sideVars
    /\ pc = "idle" /\ stored_md_switches # <<>>
    /\ startTarget' = prep_migration_target
    /\ dbAtPrep' = <<dbControllers, dbClusters>>
    /\ \/ \E np \in StoredNodepaths : \E c \in PrepClusterChoices(np) :
            /\ selected_nodepath' = np /\ cluster_name' = c
            /\ pc' = "p_connect"
       \/ \* any of the prompts answered with something else than 'y'
          /\ pc' = "p_done"
          /\ UNCHANGED <<selected_nodepath, cluster_name>>
    /\ UNCHANGED <<globalVars, in_cluster_context, controllers, idx,
                   success_count, failed_controllers, clusters_info,
                   lc_restoration_success, selected_group, remoteVars,
                   marked, attempted, succeeded, warned, report, startGroups, lastOp, open_sessions>>

PrepConnect ==
    /\ UNCHANGED sideVars
    /\ pc = "p_connect"
    /\ \E s \in ssh_to_mm(MM) :
        \/ s = Raised /\ Aborted
        \/ s = NoSession /\ pc' = "p_done" /\ UNCHANGED <<session, sent, open_sessions>>
        \/ s \notin {Raised, NoSession} /\ Connected(s) /\ pc' = "p_cfgnode"
    /\ UNCHANGED <<globalVars, localVars, marked, attempted, succeeded, warned, report,
                   startTarget, startGroups, lastOp, dbAtPrep>>

PrepStep ==
    /\ UNCHANGED sideVars
    /\ pc \in PrepPlainPcs
    /\ \E resp \in PlainResponses : send_ssh_command(PrepCmd(pc), resp)
    /\ pc' = PrepAfter(pc)
    /\ UNCHANGED <<globalVars, selected_nodepath, cluster_name, in_cluster_context,
                   controllers, idx, success_count, failed_controllers,
                   clusters_info, lc_restoration_success, selected_group, session,
                   obsVars>>

\* first attempt to enter the LC cluster profile
PrepEnterProfile ==
    /\ UNCHANGED sideVars
    /\ pc = "p_profile"
    /\ \E resp \in ProfileResponses :
        /\ send_ssh_command(PrepCmd(pc), resp)
        /\ in_cluster_context' = InProfileContext(resp)
        /\ marked' = IF InProfileContext(resp) THEN marked \cup {cluster_name} ELSE marked
        /\ pc' = IF HasErrorColon(resp) \/ ~ InProfileContext(resp)
                 THEN "p_fallback" ELSE "p_nolb"
    /\ UNCHANGED <<globalVars, selected_nodepath, cluster_name,
                   controllers, idx, success_count, failed_controllers,
                   clusters_info, lc_restoration_success, selected_group, session,
                   attempted, succeeded, warned, report, startTarget, startGroups, lastOp,
                   dbAtPrep, open_sessions>>

PrepFallbackChoice ==
    /\ UNCHANGED sideVars
    /\ pc = "p_fallback"
    /\ \/ /\ pc' = "p_f1_exit" /\ UNCHANGED cluster_name
       \/ \E typed \in TypedNames : cluster_name' = typed /\ pc' = "p_f2_profile"
       \/ /\ pc' = "p_close" /\ UNCHANGED cluster_name
    /\ UNCHANGED <<globalVars, selected_nodepath, in_cluster_context,
                   controllers, idx, success_count, failed_controllers,
                   clusters_info, lc_restoration_success, selected_group,
                   remoteVars, obsVars>>

PrepShowMembership ==
    /\ UNCHANGED sideVars
    /\ pc = "p_f1_show"
    /\ \E resp \in PlainResponses : send_ssh_command(PrepCmd(pc), resp)
    /\ \/ \E found \in FoundNames :
            \/ cluster_name' = found /\ pc' = "p_f1_conf"
            \/ pc' = "p_close" /\ UNCHANGED cluster_name
       \/ pc' = "p_close" /\ UNCHANGED cluster_name
    /\ UNCHANGED <<globalVars, selected_nodepath, in_cluster_context,
                   controllers, idx, success_count, failed_controllers,
                   clusters_info, lc_restoration_success, selected_group, session,
                   obsVars>>

M_PrepRetryProfile_GoesOn ==
    /\ UNCHANGED sideVars
    /\ pc \in {"p_f1_profile", "p_f2_profile"}
    /\ \E resp \in ProfileResponses :
        /\ send_ssh_command(PrepCmd(pc), resp)
        /\ in_cluster_context' = (in_cluster_context \/ InProfileContext(resp))
        /\ marked' = IF InProfileContext(resp) THEN marked \cup {cluster_name} ELSE marked
        /\ pc' = "p_nolb"
    /\ UNCHANGED <<globalVars, selected_nodepath, cluster_name,
                   controllers, idx, success_count, failed_controllers,
                   clusters_info, lc_restoration_success, selected_group, session,
                   attempted, succeeded, warned, report, startTarget, startGroups, lastOp,
                   dbAtPrep, open_sessions>>
\* the profile entry repeated in the fallback, with the found or typed name
PrepRetryProfile ==
    /\ UNCHANGED sideVars
    /\ pc \in {"p_f1_profile", "p_f2_profile"}
    /\ \E resp \in ProfileResponses :
        /\ send_ssh_command(PrepCmd(pc), resp)
        /\ in_cluster_context' = (in_cluster_context \/ InProfileContext(resp))
        /\ marked' = IF InProfileContext(resp) THEN marked \cup {cluster_name} ELSE marked
        /\ pc' = IF in_cluster_context' THEN "p_nolb" ELSE "p_close"
    /\ UNCHANGED <<globalVars, selected_nodepath, cluster_name,
                   controllers, idx, success_count, failed_controllers,
                   clusters_info, lc_restoration_success, selected_group, session,
                   attempted, succeeded, warned, report, startTarget, startGroups, lastOp,
                   dbAtPrep, open_sessions>>

PrepRecordTarget ==
    /\ UNCHANGED sideVars
    /\ pc = "p_record"
    /\ prep_migration_target' =
            [nodepath |-> selected_nodepath, cluster_name |-> cluster_name]
    /\ pc' = "p_close"
    /\ UNCHANGED <<dbVars, selected_cluster, selected_ap_groups, localVars,
                   remoteVars, obsVars>>

M_PrepSendRaises_NoFinally ==
    /\ UNCHANGED sideVars
    /\ pc \in PrepSendPcs
    /\ SendRaises(PrepCmd(pc))
    /\ pc' = "p_done"
    /\ UNCHANGED <<globalVars, localVars, session, obsVars>>
\* except Exception: the error is printed, the finally follows
PrepSendRaises ==
    /\ UNCHANGED sideVars
    /\ pc \in PrepSendPcs
    /\ SendRaises(PrepCmd(pc))
    /\ pc' = "p_close"
    /\ UNCHANGED <<globalVars, localVars, session, obsVars>>

PrepClose ==
    /\ UNCHANGED sideVars
    /\ pc = "p_close"
    /\ CloseSession
    /\ pc' = "p_done"
    /\ UNCHANGED <<globalVars, localVars, sent, runObs>>

PrepReturn ==
    /\ UNCHANGED sideVars
    /\ pc = "p_done"
    /\ Return("prepare")
    /\ UNCHANGED globalVars

Prepare ==
    \/ PrepStart \/ PrepConnect \/ PrepStep \/ PrepEnterProfile
    \/ PrepFallbackChoice \/ PrepShowMembership \/ PrepRetryProfile
    \/ PrepRecordTarget \/ PrepSendRaises \/ PrepClose \/ PrepReturn

\* --------------------------------------------- cleanup_ap_convert (option 7)
Phase1SendPcs == {"c1_clear", "c1_clear_y", "c1_cancel", "c1_cancel_y"}
Phase2PlainPcs == {"c2_cfgnode", "c2_conf", "c2_exit1", "c2_exit2", "c2_write", "c2_final"}
Phase2ConfigPcs == {"c2_red", "c2_lb"}
Phase2SendPcs == Phase2PlainPcs \cup Phase2ConfigPcs \cup {"c2_profile"}
CleanPcs ==
    Phase1SendPcs \cup Phase2SendPcs \cup
    {"c1_connect", "c1_close", "c2_targets", "c2_connect", "c2_close", "c_clear", "c_done"}

M_CleanCmd_SaveOnlyAtEnd(at) ==
    CASE at = "c1_clear" -> Cmd("ap convert clear-all", "")
      [] at = "c1_cancel" -> Cmd("ap convert cancel", "")
      [] at \in {"c1_clear_y", "c1_cancel_y"} -> Cmd("y", "")
      [] at = "c2_cfgnode" -> Cmd("change-config-node", clusters_info[idx][2])
      [] at = "c2_conf" -> Cmd("configure terminal", "")
      [] at = "c2_profile" -> Cmd("lc-cluster group-profile", clusters_info[idx][1])
      [] at = "c2_red" -> Cmd("redundancy", "")
      [] at = "c2_lb" -> Cmd("active-ap-lb", "")
      [] at \in {"c2_exit1", "c2_exit2", "c2_write"} -> Cmd("exit", "")
      [] at = "c2_final" -> Cmd("write memory", "")
CleanCmd(at) ==
    CASE at = "c1_clear" -> Cmd("ap convert clear-all", "")
      [] at = "c1_cancel" -> Cmd("ap convert cancel", "")
      [] at \in {"c1_clear_y", "c1_cancel_y"} -> Cmd("y", "")
      [] at = "c2_cfgnode" -> Cmd("change-config-node", clusters_info[idx][2])
      [] at = "c2_conf" -> Cmd("configure terminal", "")
      [] at = "c2_profile" -> Cmd("lc-cluster group-profile", clusters_info[idx][1])
      [] at = "c2_red" -> Cmd("redundancy", "")
      [] at = "c2_lb" -> Cmd("active-ap-lb", "")
      [] at \in {"c2_exit1", "c2_exit2"} -> Cmd("exit", "")
      [] at \in {"c2_write", "c2_final"} -> Cmd("write memory", "")

Phase2After(at) ==
    CASE at = "c2_cfgnode" -> "c2_conf"
      [] at = "c2_conf" -> "c2_profile"
      [] at = "c2_exit1" -> "c2_exit2"
      [] at = "c2_exit2" -> "c2_write"
      [] at = "c2_write" -> IF idx < Len(clusters_info) THEN "c2_cfgnode" ELSE "c2_final"
      [] at = "c2_final" -> "c2_close"

\* the for loop of Phase 1: the next controller, whatever happened on this one
M_Phase1Next_StopOnFailure ==
    IF idx < Len(controllers) /\ failed_controllers = <<>>
    THEN "c1_connect" ELSE "c2_targets"
M_Phase1Next_WaitsAfterFailures ==
    IF idx < Len(controllers) THEN "c1_connect"
    ELSE IF success_count = 0 THEN "c1_wait" ELSE "c2_targets"
Phase1Next == IF idx < Len(controllers) THEN "c1_connect" ELSE "c2_targets"

\* if success_count > 0: clear the AP group list and the prep target
M_ShouldClear_AfterRestoration == success_count > 0 /\ lc_restoration_success
M_ShouldClear_AllSucceeded == success_count = Len(controllers)
M_ShouldClear_WhenRestored == success_count > 0 \/ lc_restoration_success
ShouldClear == success_count > 0

CleanStart ==
    /\ UNCHANGED sideVars
    /\ pc = "idle"
    /\ controllers' = get_all_controllers
    /\ startTarget' = prep_migration_target
    /\ startGroups' = selected_ap_groups
    /\ IF get_all_controllers = <<>>
       THEN pc' = "c_done" /\ UNCHANGED <<warned, idx>>
       ELSE /\ warned' = (prep_migration_target = NoneTarget)
            /\ \/ pc' = "c1_connect" /\ idx' = 1
               \/ pc' = "c_done" /\ UNCHANGED idx
    /\ UNCHANGED <<globalVars, selected_nodepath, cluster_name, in_cluster_context,
                   success_count, failed_controllers, clusters_info,
                   lc_restoration_success, selected_group, remoteVars,
                   marked, attempted, succeeded, report, lastOp, dbAtPrep, open_sessions>>

Phase1Connect ==
    /\ UNCHANGED sideVars
    /\ pc = "c1_connect"
    /\ attempted' = Append(attempted, controllers[idx].name)
    /\ \E s \in ssh_to_mm(MC(controllers[idx].name)) :
        \/ s = Raised /\ Aborted /\ UNCHANGED <<failed_controllers, idx>>
        \/ /\ s = NoSession
           /\ failed_controllers' = Append(failed_controllers, controllers[idx].name)
           /\ idx' = idx + 1
           /\ pc' = Phase1Next
           /\ UNCHANGED <<session, sent, open_sessions>>
        \/ /\ s \notin {Raised, NoSession}
           /\ Connected(s)
           /\ pc' = "c1_clear"
           /\ UNCHANGED <<failed_controllers, idx>>
    /\ UNCHANGED <<globalVars, selected_nodepath, cluster_name, in_cluster_context,
                   controllers, success_count, clusters_info,
                   lc_restoration_success, selected_group,
                   marked, succeeded, warned, report, startTarget, startGroups,
                   lastOp, dbAtPrep>>

M_Phase1Command_NeedsPhrase ==
    /\ UNCHANGED sideVars
    /\ pc \in {"c1_clear", "c1_cancel"}
    /\ \E resp \in ConfirmResponses :
        /\ send_ssh_command(CleanCmd(pc), resp)
        /\ IF HasConfirm(resp)
           THEN pc' = (IF pc = "c1_clear" THEN "c1_clear_y" ELSE "c1_cancel_y")
                /\ UNCHANGED failed_controllers
           ELSE pc' = "c1_close"
                /\ failed_controllers' = Append(failed_controllers, controllers[idx].name)
    /\ UNCHANGED <<globalVars, selected_nodepath, cluster_name, in_cluster_context,
                   controllers, idx, success_count, clusters_info,
                   lc_restoration_success, selected_group, session,
                   marked, attempted, succeeded, warned, report, startTarget, startGroups,
                   lastOp, dbAtPrep, open_sessions>>
\* 'ap convert clear-all' / 'ap convert cancel', and the check for the prompt
Phase1Command ==
    /\ UNCHANGED sideVars
    /\ pc \in {"c1_clear", "c1_cancel"}
    /\ \E resp \in ConfirmResponses :
        /\ send_ssh_command(CleanCmd(pc), resp)
        /\ IF HasConfirm(resp)
           THEN pc' = (IF pc = "c1_clear" THEN "c1_clear_y" ELSE "c1_cancel_y")
                /\ UNCHANGED success_count
           ELSE IF pc = "c1_clear"
                THEN pc' = "c1_cancel" /\ UNCHANGED success_count
                ELSE pc' = "c1_close" /\ success_count' = success_count + 1
    /\ succeeded' = IF success_count' # success_count
                    THEN Append(succeeded, controllers[idx].name) ELSE succeeded
    /\ UNCHANGED <<globalVars, selected_nodepath, cluster_name, in_cluster_context,
                   controllers, idx, failed_controllers, clusters_info,
                   lc_restoration_success, selected_group, session,
                   marked, attempted, warned, report, startTarget, startGroups,
                   lastOp, dbAtPrep, open_sessions>>

Phase1Answer ==
    /\ UNCHANGED sideVars
    /\ pc \in {"c1_clear_y", "c1_cancel_y"}
    /\ \E resp \in ConfirmResponses : send_ssh_command(CleanCmd(pc), resp)
    /\ IF pc = "c1_clear_y"
       THEN pc' = "c1_cancel" /\ UNCHANGED success_count
       ELSE pc' = "c1_close" /\ success_count' = success_count + 1
    /\ succeeded' = IF success_count' # success_count
                    THEN Append(succeeded, controllers[idx].name) ELSE succeeded
    /\ UNCHANGED <<globalVars, selected_nodepath, cluster_name, in_cluster_context,
                   controllers, idx, failed_controllers, clusters_info,
                   lc_restoration_success, selected_group, session,
                   marked, attempted, warned, report, startTarget, startGroups,
                   lastOp, dbAtPrep, open_sessions>>

Phase1SendRaises ==
    /\ UNCHANGED sideVars
    /\ pc \in Phase1SendPcs
    /\ SendRaises(CleanCmd(pc))
    /\ failed_controllers' = Append(failed_controllers, controllers[idx].name)
    /\ pc' = "c1_close"
    /\ UNCHANGED <<globalVars, selected_nodepath, cluster_name, in_cluster_context,
                   controllers, idx, success_count, clusters_info,
                   lc_restoration_success, selected_group, session, obsVars>>

Phase1Close ==
    /\ UNCHANGED sideVars
    /\ pc = "c1_close"
    /\ CloseSession
    /\ idx' = idx + 1
    /\ pc' = Phase1Next
    /\ UNCHANGED <<globalVars, selected_nodepath, cluster_name, in_cluster_context,
                   controllers, success_count, failed_controllers,
                   clusters_info, lc_restoration_success, selected_group, sent,
                   runObs>>

\* the restoration targets of Phase 2
M_RestorationTargets_AlwaysAll == get_all_clusters_with_nodepaths
RestorationTargets ==
    IF prep_migration_target # NoneTarget
    THEN << <<prep_migration_target.cluster_name, prep_migration_target.nodepath>> >>
    ELSE get_all_clusters_with_nodepaths

Phase2Targets ==
    /\ UNCHANGED sideVars
    /\ pc = "c2_targets"
    /\ clusters_info' = RestorationTargets
    /\ warned' = (warned \/ (prep_migration_target = NoneTarget
                             /\ get_all_clusters_with_nodepaths # <<>>))
    /\ pc' = IF RestorationTargets = <<>> THEN "c_clear" ELSE "c2_connect"
    /\ UNCHANGED <<globalVars, selected_nodepath, cluster_name, in_cluster_context,
                   controllers, idx, success_count, failed_controllers,
                   lc_restoration_success, selected_group, remoteVars,
                   marked, attempted, succeeded, report, startTarget, startGroups, lastOp,
                   dbAtPrep, open_sessions>>

Phase2Connect ==
    /\ UNCHANGED sideVars
    /\ pc = "c2_connect"
    /\ \E s \in ssh_to_mm(MM) :
        \/ s = Raised /\ Aborted /\ UNCHANGED <<idx, lc_restoration_success>>
        \/ /\ s = NoSession
           /\ pc' = "c_clear"
           /\ UNCHANGED <<session, sent, open_sessions, idx, lc_restoration_success>>
        \/ /\ s \notin {Raised, NoSession}
           /\ Connected(s)
           /\ idx' = 1 /\ lc_restoration_success' = FALSE
           /\ pc' = "c2_cfgnode"
    /\ UNCHANGED <<globalVars, selected_nodepath, cluster_name, in_cluster_context,
                   controllers, success_count, failed_controllers,
                   clusters_info, selected_group,
                   marked, attempted, succeeded, warned, report, startTarget, startGroups,
                   lastOp, dbAtPrep>>

Phase2Step ==
    /\ UNCHANGED sideVars
    /\ pc \in Phase2PlainPcs
    /\ \E resp \in PlainResponses : send_ssh_command(CleanCmd(pc), resp)
    /\ pc' = Phase2After(pc)
    /\ idx' = IF pc = "c2_write" /\ idx < Len(clusters_info) THEN idx + 1 ELSE idx
    /\ UNCHANGED <<globalVars, selected_nodepath, cluster_name, in_cluster_context,
                   controllers, success_count, failed_controllers, clusters_info,
                   lc_restoration_success, selected_group, session, obsVars>>

M_Phase2EnterProfile_SkipsUnconfirmed ==
    /\ UNCHANGED sideVars
    /\ pc = "c2_profile"
    /\ \E resp \in ProfileResponses :
        /\ send_ssh_command(CleanCmd(pc), resp)
        /\ in_cluster_context' = InProfileContext(resp)
    /\ pc' = IF in_cluster_context' THEN "c2_red" ELSE "c2_exit1"
    /\ UNCHANGED <<globalVars, selected_nodepath, cluster_name,
                   controllers, idx, success_count, failed_controllers,
                   clusters_info, lc_restoration_success, selected_group, session,
                   obsVars>>
\* profile entry is best effort: the commands follow whatever the response
Phase2EnterProfile ==
    /\ UNCHANGED sideVars
    /\ pc = "c2_profile"
    /\ \E resp \in ProfileResponses :
        /\ send_ssh_command(CleanCmd(pc), resp)
        /\ in_cluster_context' = InProfileContext(resp)
    /\ pc' = "c2_red"
    /\ UNCHANGED <<globalVars, selected_nodepath, cluster_name,
                   controllers, idx, success_count, failed_controllers,
                   clusters_info, lc_restoration_success, selected_group, session,
                   obsVars>>

Phase2Config ==
    /\ UNCHANGED sideVars
    /\ pc \in Phase2ConfigPcs
    /\ \E resp \in ConfigResponses : send_ssh_command(CleanCmd(pc), resp)
    /\ IF pc = "c2_red"
       THEN pc' = "c2_lb" /\ UNCHANGED lc_restoration_success
       ELSE pc' = "c2_exit1" /\ lc_restoration_success' = TRUE
    /\ UNCHANGED <<globalVars, selected_nodepath, cluster_name, in_cluster_context,
                   controllers, idx, success_count, failed_controllers,
                   clusters_info, selected_group, session, obsVars>>

\* the inner try: an error in the two re-enable commands is printed, the
\* exits and the save follow
Phase2ConfigRaises ==
    /\ UNCHANGED sideVars
    /\ pc \in Phase2ConfigPcs
    /\ SendRaises(CleanCmd(pc))
    /\ pc' = "c2_exit1"
    /\ UNCHANGED <<globalVars, localVars, session, obsVars>>

Phase2SendRaises ==
    /\ UNCHANGED sideVars
    /\ pc \in Phase2SendPcs \ Phase2ConfigPcs
    /\ SendRaises(CleanCmd(pc))
    /\ pc' = "c2_close"
    /\ UNCHANGED <<globalVars, localVars, session, obsVars>>

Phase2Close ==
    /\ UNCHANGED sideVars
    /\ pc = "c2_close"
    /\ CloseSession
    /\ pc' = "c_clear"
    /\ UNCHANGED <<globalVars, localVars, sent, runObs>>

\* which restoration the summary names, read after the globals were cleared
SummaryRestoration(target) ==
    IF clusters_info = <<>> THEN "none"
    ELSE IF target # NoneTarget THEN "targeted" ELSE "full"

\* clear the local intent state, then print the summary
CleanSummary ==
    /\ UNCHANGED sideVars
    /\ pc = "c_clear"
    /\ IF ShouldClear
       THEN selected_ap_groups' = <<>> /\ prep_migration_target' = NoneTarget
       ELSE UNCHANGED <<selected_ap_groups, prep_migration_target>>
    /\ report' = [workflow |-> "cleanup", success |-> success_count,
                  total |-> Len(controllers), failed |-> failed_controllers,
                  lists_failed |-> TRUE,
                  restoration |-> SummaryRestoration(prep_migration_target')]
    /\ pc' = "c_done"
    /\ UNCHANGED <<dbVars, selected_cluster, localVars, remoteVars,
                   marked, attempted, succeeded, warned, startTarget, startGroups,
                   lastOp, dbAtPrep, open_sessions>>

CleanReturn ==
    /\ UNCHANGED sideVars
    /\ pc = "c_done"
    /\ Return("other")
    /\ UNCHANGED globalVars

Cleanup ==
    \/ CleanStart \/ Phase1Connect \/ Phase1Command \/ Phase1Answer
    \/ Phase1SendRaises \/ Phase1Close \/ Phase2Targets \/ Phase2Connect
    \/ Phase2Step \/ Phase2EnterProfile \/ Phase2Config \/ Phase2ConfigRaises
    \/ Phase2SendRaises \/ Phase2Close \/ CleanSummary \/ CleanReturn

\* the process after a discovery of MaxControllers controllers, with or
\* without a recorded prepare target and selected AP groups
InitCleanup ==
    /\ \E k \in 1..MaxControllers, shape \in ClusterShapes :
        LET md == [i \in 1..MaxControllers |->
                     [name |-> i,
                      nodepath |-> IF i <= k THEN NodePaths[1] ELSE NodePaths[2]]]
        IN /\ stored_md_switches = md
           /\ dbControllers = md
           /\ dbClusters = StoreClusters([j \in 1..MaxControllers |-> NoRow], md, md, shape)
           /\ dbApGroups = [j \in 1..MaxControllers |-> ApGroupPool]
    /\ selected_cluster = ""
    /\ selected_ap_groups \in { <<>>, <<"g1">> }
    /\ prep_migration_target \in
          { NoneTarget, [nodepath |-> NodePaths[1], cluster_name |-> "A"] }
    /\ discoveries = 1
    /\ pc = "idle" /\ IdleLocals
    /\ lastOp = "other" /\ dbAtPrep = <<>>
    /\ MonitorOff
    /\ ReadOff
    /\ PureOff

\* the workflow is sequential code and every wait in it is bounded (connect
\* and channel timeouts of 10 s, the ceiling of read_ssh_output): a step that
\* can be taken is taken
SpecCleanup == InitCleanup /\ [][Cleanup]_vars /\ WF_vars(Cleanup)

\* ------------------------------------------------ select_cluster (option 4)
M_select_cluster_KeepsGroups ==
    /\ UNCHANGED sideVars
    /\ pc = "idle"
    /\ \E k \in 1..Len(get_available_clusters) :
        /\ selected_ap_groups' = selected_ap_groups
        /\ selected_cluster' = get_available_clusters[k]
    /\ lastOp' = "other" /\ dbAtPrep' = <<>>
    /\ UNCHANGED <<dbVars, prep_migration_target, pc, localVars, remoteVars,
                   marked, attempted, succeeded, warned, report, startTarget,
                   startGroups, open_sessions>>
select_cluster ==
    /\ UNCHANGED sideVars
    /\ pc = "idle"
    /\ \E k \in 1..Len(get_available_clusters) :
        /\ selected_ap_groups' =
              IF selected_cluster # get_available_clusters[k] THEN <<>>
              ELSE selected_ap_groups
        /\ selected_cluster' = get_available_clusters[k]
    /\ lastOp' = "other" /\ dbAtPrep' = <<>>
    /\ UNCHANGED <<dbVars, prep_migration_target, pc, localVars, remoteVars,
                   marked, attempted, succeeded, warned, report, startTarget,
                   startGroups, open_sessions>>

\* ---------------- execute_ap_convert_init (5), select_and_add_ap_group (6)
ConvertInitCmd ==
    Cmd("ap convert active specific-aps activate max-downloads 20 no-pre-validation", "")
AddGroupCmd == Cmd("ap convert add ap-group", selected_group)

HostCmd(at) ==
    CASE at = "i_cmd" -> ConvertInitCmd
      [] at = "i_y" -> Cmd("y", "")
      [] at = "a_cmd" -> AddGroupCmd

ClusterApGroups ==
    UNION { get_ap_groups_for_controller(get_controllers_by_cluster(selected_cluster)[k].id) :
                k \in 1..Len(get_controllers_by_cluster(selected_cluster)) }

InitStart ==
    /\ UNCHANGED sideVars
    /\ pc = "idle" /\ selected_cluster # ""
    /\ get_controllers_by_cluster(selected_cluster) # <<>>
    /\ controllers' = get_controllers_by_cluster(selected_cluster)
    /\ idx' = 1
    /\ pc' = "i_connect"
    /\ UNCHANGED <<globalVars, selected_nodepath, cluster_name, in_cluster_context,
                   success_count, failed_controllers, clusters_info,
                   lc_restoration_success, selected_group, remoteVars, obsVars>>

AddStart ==
    /\ UNCHANGED sideVars
    /\ pc = "idle" /\ selected_cluster # ""
    /\ get_controllers_by_cluster(selected_cluster) # <<>>
    /\ \E g \in ClusterApGroups \ Range(selected_ap_groups) : selected_group' = g
    /\ controllers' = get_controllers_by_cluster(selected_cluster)
    /\ idx' = 1
    /\ pc' = "a_connect"
    /\ UNCHANGED <<globalVars, selected_nodepath, cluster_name, in_cluster_context,
                   success_count, failed_controllers, clusters_info,
                   lc_restoration_success, remoteVars, obsVars>>

HostAfterClose(w) ==
    IF idx < Len(controllers) THEN w \o "_connect" ELSE w \o "_summary"

\* ssh_to_mm for the next controller of the cluster; a failure skips it
HostConnect ==
    /\ UNCHANGED sideVars
    /\ pc \in {"i_connect", "a_connect"}
    /\ attempted' = Append(attempted, controllers[idx].name)
    /\ \E s \in ssh_to_mm(MC(controllers[idx].name)) :
        \/ s = Raised /\ Aborted /\ UNCHANGED idx
        \/ /\ s = NoSession
           /\ idx' = idx + 1
           /\ pc' = (IF pc = "i_connect" THEN HostAfterClose("i") ELSE HostAfterClose("a"))
           /\ UNCHANGED <<session, sent, open_sessions>>
        \/ /\ s \notin {Raised, NoSession}
           /\ Connected(s)
           /\ pc' = (IF pc = "i_connect" THEN "i_cmd" ELSE "a_cmd")
           /\ UNCHANGED idx
    /\ UNCHANGED <<globalVars, selected_nodepath, cluster_name, in_cluster_context,
                   controllers, success_count, failed_controllers,
                   clusters_info, lc_restoration_success, selected_group,
                   marked, succeeded, warned, report, startTarget, startGroups,
                   lastOp, dbAtPrep>>

\* the convert command; 'y' follows only after "WARNING:" and the phrase
InitCommand ==
    /\ UNCHANGED sideVars
    /\ pc = "i_cmd"
    /\ \E resp \in ConfirmResponses :
        /\ send_ssh_command(HostCmd(pc), resp)
        /\ pc' = IF WarningMark \in resp /\ HasConfirm(resp) THEN "i_y" ELSE "i_close"
    /\ UNCHANGED <<globalVars, selected_nodepath, cluster_name, in_cluster_context,
                   controllers, idx, success_count, failed_controllers,
                   clusters_info, lc_restoration_success, selected_group, session,
                   obsVars>>

InitAnswer ==
    /\ UNCHANGED sideVars
    /\ pc = "i_y"
    /\ \E resp \in ConfirmResponses : send_ssh_command(HostCmd(pc), resp)
    /\ success_count' = success_count + 1
    /\ succeeded' = Append(succeeded, controllers[idx].name)
    /\ pc' = "i_close"
    /\ UNCHANGED <<globalVars, selected_nodepath, cluster_name, in_cluster_context,
                   controllers, idx, failed_controllers, clusters_info,
                   lc_restoration_success, selected_group, session,
                   marked, attempted, warned, report, startTarget, startGroups,
                   lastOp, dbAtPrep, open_sessions>>

AddCommand ==
    /\ UNCHANGED sideVars
    /\ pc = "a_cmd"
    /\ \E resp \in ConfigResponses :
        /\ send_ssh_command(HostCmd(pc), resp)
        /\ IF HasError(resp)
           THEN UNCHANGED <<success_count, succeeded>>
           ELSE /\ success_count' = success_count + 1
                /\ succeeded' = Append(succeeded, controllers[idx].name)
    /\ pc' = "a_close"
    /\ UNCHANGED <<globalVars, selected_nodepath, cluster_name, in_cluster_context,
                   controllers, idx, failed_controllers, clusters_info,
                   lc_restoration_success, selected_group, session,
                   marked, attempted, warned, report, startTarget, startGroups,
                   lastOp, dbAtPrep, open_sessions>>

HostSendRaises ==
    /\ UNCHANGED sideVars
    /\ pc \in {"i_cmd", "i_y", "a_cmd"}
    /\ SendRaises(HostCmd(pc))
    /\ pc' = (IF pc = "a_cmd" THEN "a_close" ELSE "i_close")
    /\ UNCHANGED <<globalVars, localVars, session, obsVars>>

HostClose ==
    /\ UNCHANGED sideVars
    /\ pc \in {"i_close", "a_close"}
    /\ CloseSession
    /\ idx' = idx + 1
    /\ pc' = (IF pc = "i_close" THEN HostAfterClose("i") ELSE HostAfterClose("a"))
    /\ UNCHANGED <<globalVars, selected_nodepath, cluster_name, in_cluster_context,
                   controllers, success_count, failed_controllers,
                   clusters_info, lc_restoration_success, selected_group, sent,
                   runObs>>

\* "... executed successfully on {success_count} out of {len(controllers)}"
InitSummary ==
    /\ UNCHANGED sideVars
    /\ pc = "i_summary"
    /\ report' = [workflow |-> "convert-init", success |-> success_count,
                  total |-> Len(controllers), failed |-> <<>>,
                  lists_failed |-> FALSE, restoration |-> "none"]
    /\ pc' = "i_done"
    /\ UNCHANGED <<globalVars, localVars, remoteVars, marked, attempted, succeeded,
                   warned, startTarget, startGroups, lastOp, dbAtPrep, open_sessions>>

AddSummary ==
    /\ UNCHANGED sideVars
    /\ pc = "a_summary"
    /\ selected_ap_groups' =
          IF success_count > 0 THEN Append(selected_ap_groups, selected_group)
          ELSE selected_ap_groups
    /\ report' = [workflow |-> "add-ap-group", success |-> success_count,
                  total |-> Len(controllers), failed |-> <<>>,
                  lists_failed |-> FALSE, restoration |-> "none"]
    /\ pc' = "a_done"
    /\ UNCHANGED <<dbVars, selected_cluster, prep_migration_target, localVars,
                   remoteVars, marked, attempted, succeeded, warned, startTarget,
                   startGroups, lastOp, dbAtPrep, open_sessions>>

HostReturn ==
    /\ UNCHANGED sideVars
    /\ pc \in {"i_done", "a_done"}
    /\ Return("other")
    /\ UNCHANGED globalVars

HostWorkflows ==
    \/ InitStart \/ AddStart \/ HostConnect \/ InitCommand \/ InitAnswer
    \/ AddCommand \/ HostSendRaises \/ HostClose \/ InitSummary \/ AddSummary
    \/ HostReturn

\* ------------------------------- selecting, adding groups, cleaning up
\* the AP groups of a fleet whose controllers carry more than one group
SelectGroups == {"g1", "g2"}

\* the menu after a discovery of MaxControllers controllers in clusters A
\* and B, every controller with the same AP groups, and a prepare run on A
InitSelect ==
    /\ LET md == [i \in 1..MaxControllers |-> [name |-> i, nodepath |-> NodePaths[1]]]
       IN /\ stored_md_switches = md
          /\ dbControllers = md
          /\ dbClusters = StoreClusters([j \in 1..MaxControllers |-> NoRow], md, md, "two")
          /\ dbApGroups = [j \in 1..MaxControllers |-> SelectGroups]
    /\ selected_cluster = "" /\ selected_ap_groups = <<>>
    /\ prep_migration_target = [nodepath |-> NodePaths[1], cluster_name |-> "A"]
    /\ discoveries = 1
    /\ pc = "idle" /\ IdleLocals
    /\ lastOp = "other" /\ dbAtPrep = <<>>
    /\ MonitorOff
    /\ ReadOff
    /\ PureOff

SelectNext ==
    \/ select_cluster \/ AddStart \/ HostConnect \/ AddCommand \/ HostSendRaises
    \/ HostClose \/ AddSummary \/ HostReturn \/ Cleanup

SpecSelect == InitSelect /\ [][SelectNext]_vars

\* ------------------------------------------------------------ the menu loop
Next == Discovery \/ select_cluster \/ Prepare \/ Cleanup \/ HostWorkflows

Spec == Init /\ [][Next]_vars

TypeOK ==
    /\ pc \in {"idle"} \cup PrepPcs \cup CleanPcs \cup
              {"i_connect", "i_cmd", "i_y", "i_close", "i_summary", "i_done",
               "a_connect", "a_cmd", "a_close", "a_summary", "a_done"}
    /\ session \in {NoSession, MM} \cup { MC(i) : i \in 1..MaxControllers }
    /\ success_count \in 0..MaxControllers

\* ===================================================== claims, prepare
NamesOf(cs) == { cs[k].name : k \in 1..Len(cs) }
Count(c) == Cardinality({ i \in 1..Len(sent) : sent[i].cmd = c })
SavedNodepath(np) ==
    \E i, j \in 1..Len(sent) :
        /\ i < j
        /\ sent[i].cmd = "change-config-node" /\ sent[i].arg = np
        /\ sent[j].cmd = "write memory"

\* C1: whenever a prepare run records prep_migration_target, the recorded
\* cluster_name is a name whose own 'lc-cluster group-profile <name>'
\* response contained an accepted profile-context marker.
C1_RecordedNameEnteredProfile ==
    (pc \in PrepPcs /\ prep_migration_target # startTarget)
        => prep_migration_target.cluster_name \in marked

\* C2: a prepare run changes prep_migration_target only after 'write memory'
\* was sent, without an error, for the selected nodepath in the same run; on
\* every other path the target keeps the value it had before the run.
C2_TargetOnlyAfterSave ==
    (pc \in PrepPcs /\ prep_migration_target # startTarget)
        => /\ SavedNodepath(selected_nodepath)
           /\ Last(sent).cmd = "write memory"
           /\ pc \in {"p_close", "p_done"}
           /\ prep_migration_target.nodepath = selected_nodepath

C2_Witness ==
    /\ pc = "p_done" /\ prep_migration_target # startTarget
    /\ Count("lc-cluster group-profile") = 2

\* ===================================================== claims, cleanup
TargetsKnown == {"c2_connect", "c2_close", "c_clear"} \cup Phase2SendPcs

\* C3: the Phase 2 restoration targets are exactly the one (cluster_name,
\* nodepath) pair of prep_migration_target when it is set; otherwise they are
\* the full result of get_all_clusters_with_nodepaths() and the operator was
\* warned that every discovered cluster is restored.
C3_RestorationTargets ==
    pc \in TargetsKnown =>
        IF startTarget # NoneTarget
        THEN clusters_info = << <<startTarget.cluster_name, startTarget.nodepath>> >>
        ELSE clusters_info = get_all_clusters_with_nodepaths /\ warned

C3_Witness ==
    /\ pc = "c2_cfgnode" /\ startTarget = NoneTarget /\ warned
    /\ Len(clusters_info) = 2

C3_WitnessTargeted ==
    /\ pc = "c2_cfgnode" /\ startTarget # NoneTarget /\ ~ warned
    /\ Len(get_all_clusters_with_nodepaths) = 2

\* C4: on a session no 'change-config-node' follows another without a
\* 'write memory' between them: the command sent right before every later
\* 'change-config-node' is the 'write memory' of the previous target, which
\* itself follows that target's re-enable commands and both exits.
C4_SaveBeforeNextNodepath ==
    \A j \in 2..Len(sent) :
        sent[j].cmd = "change-config-node" =>
            /\ sent[j - 1].cmd = "write memory"
            /\ j > 3 /\ sent[j - 2].cmd = "exit" /\ sent[j - 3].cmd = "exit"
            /\ \E i \in 1..(j - 1) : sent[i].cmd = "change-config-node"

C4_Witness ==
    /\ pc = "c2_close" /\ Count("change-config-node") = 2
    /\ Count("write memory") = 3

\* C5: when at least one controller succeeded in Phase 1, the run ends with
\* prep_migration_target None and selected_ap_groups empty, whatever
\* happened in Phase 2.
C5_ClearedAfterAnySuccess ==
    (pc = "c_done" /\ success_count > 0)
        => prep_migration_target = NoneTarget /\ selected_ap_groups = <<>>

\* Phase 2 was cut short by an error in a send, after a prepare and an
\* AP group selection
C5_Witness ==
    /\ pc = "c_done" /\ success_count > 0
    /\ startTarget # NoneTarget /\ startGroups # <<>>
    /\ sent # <<>> /\ sent[1].cmd = "change-config-node"
    /\ Last(sent).cmd # "write memory"

\* C6 as stated: a prepare run followed by a cleanup run ends with
\* prep_migration_target unset and selected_ap_groups empty, and leaves the
\* stored controllers and cluster memberships unchanged.
C6_RoundTripAlwaysClears ==
    (pc = "c_done" /\ lastOp = "prepare" /\ attempted # <<>>
        /\ startTarget # NoneTarget)
        => /\ prep_migration_target = NoneTarget /\ selected_ap_groups = <<>>
           /\ <<dbControllers, dbClusters>> = dbAtPrep

\* C6 amended: a prepare run followed by a cleanup run leaves the stored
\* controllers and cluster memberships unchanged, and ends with
\* prep_migration_target unset and selected_ap_groups empty when at least
\* one controller succeeded in Phase 1 of the cleanup.
C6_RoundTrip ==
    (pc = "c_done" /\ lastOp = "prepare")
        => /\ <<dbControllers, dbClusters>> = dbAtPrep
           /\ (success_count > 0 =>
                  prep_migration_target = NoneTarget /\ selected_ap_groups = <<>>)
           /\ (success_count = 0 =>
                  prep_migration_target = startTarget /\ selected_ap_groups = startGroups)

C6_Witness ==
    /\ pc = "c_done" /\ lastOp = "prepare" /\ success_count > 0
    /\ startTarget # NoneTarget /\ prep_migration_target = NoneTarget
    /\ dbAtPrep # <<>>

AfterPhase1 == (CleanPcs \ (Phase1SendPcs \cup {"c1_connect", "c1_close"}))

\* C7: Phase 1 attempts every controller of get_all_controllers() exactly
\* once, in list order, whatever happened on the earlier ones; afterwards
\* every controller is either counted in success_count or named in
\* failed_controllers, never both.
C7_EveryControllerOnce ==
    pc \in CleanPcs =>
        /\ Len(attempted) <= Len(controllers)
        /\ \A k \in 1..Len(attempted) : attempted[k] = controllers[k].name
        /\ (pc \in AfterPhase1 /\ attempted # <<>>) =>
              /\ Len(attempted) = Len(controllers)
              /\ success_count + Len(failed_controllers) = Len(controllers)
              /\ success_count = Len(succeeded)
              /\ Range(succeeded) \cap Range(failed_controllers) = {}
              /\ Range(succeeded) \cup Range(failed_controllers) = NamesOf(controllers)

C7_Witness ==
    /\ pc = "c2_targets" /\ Len(controllers) = 2
    /\ failed_controllers = <<1>> /\ succeeded = <<2>>

\* C8: every workflow that processed hosts concludes by reporting the
\* number of successful hosts, the total number of hosts and the list of
\* failed host names, the failed names being exactly the hosts that were
\* not counted as successes.
C8_SummaryNamesFailedHosts ==
    (pc \in {"i_done", "a_done", "c_done"} /\ attempted # <<>>)
        => /\ report.success = Len(succeeded)
           /\ report.total = Len(controllers)
           /\ report.lists_failed
           /\ Range(report.failed) = NamesOf(controllers) \ Range(succeeded)

ConfirmCmds ==
    {"ap convert clear-all", "ap convert cancel", ConvertInitCmd.cmd}

\* C9: in Phase 1 and in convert-init, 'y' is sent exactly once after a
\* response that contains the confirmation phrase and not at all otherwise;
\* the response to 'y' is never answered with another 'y'.
C9_AnswerEachPromptOnce ==
    /\ \A i \in 1..Len(sent) :
          sent[i].cmd = "y" =>
              i > 1 /\ sent[i - 1].cmd \in ConfirmCmds /\ sent[i - 1].prompt
    /\ \A i \in 1..(Len(sent) - 1) :
          (sent[i].cmd \in ConfirmCmds /\ sent[i].prompt) => sent[i + 1].cmd = "y"
    /\ (sent # <<>> /\ Last(sent).cmd \in ConfirmCmds /\ Last(sent).prompt)
          => pc \in {"c1_clear_y", "c1_cancel_y", "i_y"}

\* ==================================================== monitor_ap_conversion
\* Keys of all_time_aps are AP names and controller names alike; AP 1 is
\* an access point that carries the name of controller 1.
ApLists == { <<>>, <<101>>, <<102>>, <<101, 102>>, <<102, 1>> }
\* a status payload: the AP entries, and the summary that goes with them
Payloads ==
    { [aps |-> l, current_converting |-> Len(l),
       status |-> IF l = <<>> THEN "Idle" ELSE "Active",
       start_time |-> IF l = <<>> THEN "Unknown" ELSE "t1",
       ap_groups |-> IF l = <<>> THEN <<>> ELSE <<"g1">>] : l \in ApLists }

Has(d, k) == k \in DOMAIN d
Put(d, k, v) == [x \in DOMAIN d \cup {k} |-> IF x = k THEN v ELSE d[x]]

NewProgress ==
    [conversion_started |-> FALSE, start_time |-> "None", ap_groups |-> <<>>,
     peak_converting |-> 0,
     total_processed_estimate |-> 0, last_current_converting |-> 0]

\* track_conversion_progress: the progress record of the controller lives in
\* the same dictionary as the AP records; a record of the other kind under
\* the key raises KeyError
M_track_conversion_progress_CountsRises(data, name, summary) ==
    LET d0 == IF Has(data, name) THEN data ELSE Put(data, name, NewProgress)
        rec == d0[name]
        cur == summary.current_converting
    IN IF ~ ("peak_converting" \in DOMAIN rec)
       THEN [raised |-> TRUE, data |-> d0]
       ELSE [raised |-> FALSE,
             data |-> Put(d0, name,
                [conversion_started |->
                    rec.conversion_started \/ summary.status = "Active",
                 start_time |->
                    IF summary.status = "Active" /\ ~ rec.conversion_started
                    THEN summary.start_time ELSE rec.start_time,
                 ap_groups |->
                    IF summary.status = "Active" /\ ~ rec.conversion_started
                    THEN summary.ap_groups ELSE rec.ap_groups,
                 peak_converting |->
                    IF cur > rec.peak_converting THEN cur ELSE rec.peak_converting,
                 total_processed_estimate |->
                    IF rec.last_current_converting > cur
                    THEN rec.total_processed_estimate + (rec.last_current_converting - cur)
                    ELSE rec.total_processed_estimate + (cur - rec.last_current_converting),
                 last_current_converting |-> cur])]
M_track_conversion_progress_Recaptures(data, name, summary) ==
    LET d0 == IF Has(data, name) THEN data ELSE Put(data, name, NewProgress)
        rec == d0[name]
        cur == summary.current_converting
    IN IF ~ ("peak_converting" \in DOMAIN rec)
       THEN [raised |-> TRUE, data |-> d0]
       ELSE [raised |-> FALSE,
             data |-> Put(d0, name,
                [conversion_started |->
                    rec.conversion_started \/ summary.status = "Active",
                 start_time |->
                    IF summary.status = "Active"
                    THEN summary.start_time ELSE rec.start_time,
                 ap_groups |->
                    IF summary.status = "Active" /\ ~ rec.conversion_started
                    THEN summary.ap_groups ELSE rec.ap_groups,
                 peak_converting |->
                    IF cur > rec.peak_converting THEN cur ELSE rec.peak_converting,
                 total_processed_estimate |->
                    IF rec.last_current_converting > cur
                    THEN rec.total_processed_estimate + (rec.last_current_converting - cur)
                    ELSE rec.total_processed_estimate,
                 last_current_converting |-> cur])]
track_conversion_progress(data, name, summary) ==
    LET d0 == IF Has(data, name) THEN data ELSE Put(data, name, NewProgress)
        rec == d0[name]
        cur == summary.current_converting
    IN IF ~ ("peak_converting" \in DOMAIN rec)
       THEN [raised |-> TRUE, data |-> d0]
       ELSE [raised |-> FALSE,
             data |-> Put(d0, name,
                [conversion_started |->
                    rec.conversion_started \/ summary.status = "Active",
                 start_time |->
                    IF summary.status = "Active" /\ ~ rec.conversion_started
                    THEN summary.start_time ELSE rec.start_time,
                 ap_groups |->
                    IF summary.status = "Active" /\ ~ rec.conversion_started
                    THEN summary.ap_groups ELSE rec.ap_groups,
                 peak_converting |->
                    IF cur > rec.peak_converting THEN cur ELSE rec.peak_converting,
                 total_processed_estimate |->
                    IF rec.last_current_converting > cur
                    THEN rec.total_processed_estimate + (rec.last_current_converting - cur)
                    ELSE rec.total_processed_estimate,
                 last_current_converting |-> cur])]

NewAp(now, owner) ==
    [first_seen |-> now, last_seen |-> now, controller |-> owner,
     status_history |-> <<>>]

RECURSIVE TrackAps(_, _, _, _, _)
\* the loop over converting_aps: add to current_converting, create the AP
\* record on first sight, stamp last_seen, append to status_history (the
\* entries of the history are not kept here, only that the list is there)
TrackAps(data, cur, aps, now, owner) ==
    IF aps = <<>> THEN [raised |-> FALSE, data |-> data, cur |-> cur]
    ELSE LET a == Head(aps)
             d0 == IF Has(data, a) THEN data ELSE Put(data, a, NewAp(now, owner))
             d1 == Put(d0, a, [x \in DOMAIN d0[a] \cup {"last_seen"} |->
                                  IF x = "last_seen" THEN now ELSE d0[a][x]])
         IN IF ~ ("status_history" \in DOMAIN d1[a])
            THEN [raised |-> TRUE, data |-> d1, cur |-> cur \cup {a}]
            ELSE TrackAps(d1, cur \cup {a}, Tail(aps), now, owner)

\* newly_completed = previous_converting - current_converting
M_NewlyCompleted_Swapped(prev, cur) == cur \ prev
NewlyCompleted(prev, cur) == prev \ cur

StampCompleted(data, names, now) ==
    [k \in DOMAIN data |->
        IF k \in names
        THEN [x \in DOMAIN data[k] \cup {"completed_time"} |->
                 IF x = "completed_time" THEN now ELSE data[k][x]]
        ELSE data[k]]

\* the controllers of the selected cluster, as the Fleet Directory has them
M_get_cluster_controllers_for_monitoring_All == get_all_controllers
get_cluster_controllers_for_monitoring ==
    IF selected_cluster = "" THEN <<>>
    ELSE get_controllers_by_cluster(selected_cluster)

\* the entry of controller_status for a controller that answered / did not
Online(n) == [status |-> "Online", count |-> n]
Offline == [status |-> "Offline/Error", count |-> 0]

NoSummary == <<>>
\* the lines of the final summary; the last one reads current_converting,
\* a local that exists only once a cycle has reached line 424
FinalSummary ==
    IF converting_bound
    THEN [tracked |-> Cardinality(DOMAIN all_time_aps),
          completed |-> Cardinality(completed_aps),
          converting |-> Cardinality(current_converting)]
    ELSE [tracked |-> Cardinality(DOMAIN all_time_aps),
          completed |-> Cardinality(completed_aps)]

\* whether the final summary announces that all access points have
\* completed: the test follows the line that reads current_converting
AllCompletedMessage ==
    /\ converting_bound
    /\ Cardinality(DOMAIN all_time_aps) > 0
    /\ Cardinality(completed_aps) = Cardinality(DOMAIN all_time_aps)

\* start_monitoring_dashboard, and monitor_ap_conversion up to the loop
MonStart ==
    /\ UNCHANGED <<readVars, pureVars>>
    /\ m_pc = "m_off"
    /\ get_cluster_controllers_for_monitoring # <<>>
    /\ mon_controllers' = get_cluster_controllers_for_monitoring
    /\ monitoring_active' = TRUE
    /\ all_time_aps' = <<>> /\ completed_aps' = {} /\ previous_converting' = {}
    /\ check_count' = 0
    /\ converting_bound' = FALSE /\ final_summary' = NoSummary
    /\ m_pc' = "m_top"
    /\ UNCHANGED <<orchVars, current_converting, controller_status, current_time,
                   cidx, cycle_before>>

\* while monitoring_active: a new cycle begins, the header is printed
MonCycle ==
    /\ UNCHANGED <<readVars, pureVars>>
    /\ m_pc = "m_top" /\ monitoring_active /\ check_count < MaxCycles
    /\ check_count' = check_count + 1
    /\ current_time' = current_time + 1
    /\ cycle_before' = previous_converting
    /\ m_pc' = "m_head"
    /\ UNCHANGED <<orchVars, monitoring_active, mon_controllers, all_time_aps,
                   completed_aps, previous_converting, current_converting,
                   controller_status, cidx, converting_bound, final_summary>>

\* current_converting = set(); controller_status = {}
MonCollect ==
    /\ UNCHANGED <<readVars, pureVars>>
    /\ m_pc = "m_head"
    /\ current_converting' = {} /\ controller_status' = <<>>
    /\ converting_bound' = TRUE
    /\ cidx' = 1
    /\ m_pc' = "m_poll"
    /\ UNCHANGED <<orchVars, monitoring_active, mon_controllers, all_time_aps,
                   completed_aps, previous_converting, check_count, current_time,
                   cycle_before, final_summary>>

M_AfterPoll_StopAtFirst == "m_diff"
AfterPoll == IF cidx < Len(mon_controllers) THEN "m_poll" ELSE "m_diff"

\* one controller of the cycle: fetch, parse, track
M_MonPoll_FailedFetchTracks ==
    /\ UNCHANGED <<readVars, pureVars>>
    /\ m_pc = "m_poll"
    /\ LET name == mon_controllers[cidx].name
       IN \/ \* fetch_ap_convert_status returned nothing
             /\ controller_status' = Put(controller_status, name, Offline)
             /\ cidx' = cidx + 1 /\ m_pc' = AfterPoll
             /\ all_time_aps' =
                   IF Has(all_time_aps, name) /\ "peak_converting" \in DOMAIN all_time_aps[name]
                   THEN Put(all_time_aps, name,
                            [x \in DOMAIN all_time_aps[name] |->
                                IF x = "last_current_converting" THEN 0
                                ELSE all_time_aps[name][x]])
                   ELSE all_time_aps
             /\ UNCHANGED current_converting
          \/ \E pl \in Payloads :
                LET t == track_conversion_progress(all_time_aps, name, pl)
                    r == TrackAps(t.data, current_converting, pl.aps, current_time, name)
                IN IF t.raised
                   THEN /\ all_time_aps' = t.data /\ m_pc' = "m_failed"
                        /\ UNCHANGED <<current_converting, controller_status, cidx>>
                   ELSE /\ all_time_aps' = r.data
                        /\ current_converting' = r.cur
                        /\ controller_status' =
                              Put(controller_status, name, Online(Len(pl.aps)))
                        /\ IF r.raised
                           THEN m_pc' = "m_failed" /\ UNCHANGED cidx
                           ELSE cidx' = cidx + 1 /\ m_pc' = AfterPoll
    /\ UNCHANGED <<orchVars, monitoring_active, mon_controllers, completed_aps,
                   previous_converting, check_count, current_time, cycle_before,
                   converting_bound, final_summary>>
MonPoll ==
    /\ UNCHANGED <<readVars, pureVars>>
    /\ m_pc = "m_poll"
    /\ LET name == mon_controllers[cidx].name
       IN \/ \* fetch_ap_convert_status returned nothing
             /\ controller_status' = Put(controller_status, name, Offline)
             /\ cidx' = cidx + 1 /\ m_pc' = AfterPoll
             /\ UNCHANGED <<all_time_aps, current_converting>>
          \/ \E pl \in Payloads :
                LET t == track_conversion_progress(all_time_aps, name, pl)
                    r == TrackAps(t.data, current_converting, pl.aps, current_time, name)
                IN IF t.raised
                   THEN /\ all_time_aps' = t.data /\ m_pc' = "m_failed"
                        /\ UNCHANGED <<current_converting, controller_status, cidx>>
                   ELSE /\ all_time_aps' = r.data
                        /\ current_converting' = r.cur
                        /\ controller_status' =
                              Put(controller_status, name, Online(Len(pl.aps)))
                        /\ IF r.raised
                           THEN m_pc' = "m_failed" /\ UNCHANGED cidx
                           ELSE cidx' = cidx + 1 /\ m_pc' = AfterPoll
    /\ UNCHANGED <<orchVars, monitoring_active, mon_controllers, completed_aps,
                   previous_converting, check_count, current_time, cycle_before,
                   converting_bound, final_summary>>

\* identify the newly completed APs, remember this cycle's converting set
MonDiff ==
    /\ UNCHANGED <<readVars, pureVars>>
    /\ m_pc = "m_diff"
    /\ completed_aps' = completed_aps \cup NewlyCompleted(previous_converting, current_converting)
    /\ all_time_aps' =
          StampCompleted(all_time_aps,
                         NewlyCompleted(previous_converting, current_converting)
                            \cap DOMAIN all_time_aps,
                         current_time)
    /\ previous_converting' = current_converting
    /\ m_pc' = "m_sleep"
    /\ UNCHANGED <<orchVars, monitoring_active, mon_controllers, current_converting,
                   controller_status, check_count, current_time, cidx, cycle_before,
                   converting_bound, final_summary>>

\* time.sleep(10) returned
MonSleep ==
    /\ UNCHANGED <<readVars, pureVars>>
    /\ m_pc = "m_sleep"
    /\ m_pc' = "m_top"
    /\ UNCHANGED <<orchVars, monitoring_active, mon_controllers, all_time_aps,
                   completed_aps, previous_converting, current_converting,
                   controller_status, check_count, current_time, cidx, cycle_before,
                   converting_bound, final_summary>>

\* where in the loop a KeyboardInterrupt can be raised
InterruptPoints == {"m_top", "m_head", "m_poll", "m_diff", "m_sleep"}

\* Ctrl+C: KeyboardInterrupt wherever the loop is
MonInterrupt ==
    /\ UNCHANGED <<readVars, pureVars>>
    /\ m_pc \in InterruptPoints
    /\ m_pc' = "m_interrupted"
    /\ UNCHANGED <<orchVars, monitoring_active, mon_controllers, all_time_aps,
                   completed_aps, previous_converting, current_converting,
                   controller_status, check_count, current_time, cidx, cycle_before,
                   converting_bound, final_summary>>

\* finally: the flag is reset and the final summary printed, as far as the
\* locals it reads exist
MonFinal ==
    /\ UNCHANGED <<readVars, pureVars>>
    /\ m_pc \in {"m_interrupted", "m_failed"}
    /\ monitoring_active' = FALSE
    /\ final_summary' = FinalSummary
    /\ m_pc' = "m_done"
    /\ UNCHANGED <<orchVars, mon_controllers, all_time_aps, completed_aps,
                   previous_converting, current_converting, controller_status,
                   check_count, current_time, cidx, cycle_before, converting_bound>>

Monitor ==
    \/ MonStart \/ MonCycle \/ MonCollect \/ MonPoll \/ MonDiff \/ MonSleep
    \/ MonInterrupt \/ MonFinal

\* the directories the monitor starts from: MaxControllers controllers, all
\* in cluster A or the last one in cluster B
MonitorLayouts == {"together", "split"}

\* the process right after a discovery and the selection of a cluster
InitMonitor ==
    /\ stored_md_switches = [i \in 1..MaxControllers |-> [name |-> i, nodepath |-> NodePaths[1]]]
    /\ dbControllers = stored_md_switches
    /\ \E layout \in MonitorLayouts :
          dbClusters = [i \in 1..MaxControllers |->
                           IF layout = "split" /\ i = MaxControllers THEN "B" ELSE "A"]
    /\ dbApGroups = [i \in 1..MaxControllers |-> ApGroupPool]
    /\ selected_cluster \in ClusterNames /\ selected_ap_groups = <<>>
    /\ prep_migration_target = NoneTarget /\ discoveries = 1
    /\ pc = "idle" /\ IdleLocals
    /\ lastOp = "other" /\ dbAtPrep = <<>>
    /\ MonitorOff
    /\ ReadOff
    /\ PureOff

SpecMonitor == InitMonitor /\ [][Monitor]_vars

\* ===================================================== claims, monitor
IsAp(k) == Has(all_time_aps, k) /\ "first_seen" \in DOMAIN all_time_aps[k]

\* C10: an AP name in the converting set of one cycle and not in that of
\* the next is in completed_aps once the next cycle has made its diff, stays
\* there, and carries a completed_time not earlier than its first_seen.
C10_CompletedWhenGone ==
    /\ [](m_pc = "m_sleep" =>
            \A a \in cycle_before \ current_converting :
                /\ a \in completed_aps
                /\ IsAp(a)
                /\ "completed_time" \in DOMAIN all_time_aps[a]
                /\ all_time_aps[a].completed_time = current_time
                /\ all_time_aps[a].completed_time >= all_time_aps[a].first_seen)
    /\ [][completed_aps \subseteq completed_aps' \/ m_pc = "m_off"]_vars
    /\ [](\A a \in completed_aps :
            IsAp(a) /\ "completed_time" \in DOMAIN all_time_aps[a]
                    /\ all_time_aps[a].completed_time >= all_time_aps[a].first_seen)

C10_Witness ==
    /\ m_pc = "m_sleep" /\ check_count = 3
    /\ 101 \in cycle_before \ current_converting
    /\ 102 \in completed_aps /\ 102 \in current_converting

\* the progress records of the controllers among the keys of a dictionary
ProgressKeys(d) == { k \in DOMAIN d : "total_processed_estimate" \in DOMAIN d[k] }
DropOf(before, after) == IF before > after THEN before - after ELSE 0

\* C11: in every step of the monitor the progress record of a controller
\* stays in all_time_aps, and its total_processed_estimate grows by exactly
\* max(0, last_current_converting before - last_current_converting after),
\* counted from zero for a record that is new; so it never decreases.
C11_EstimateGrowsByDrop ==
    [][/\ ProgressKeys(all_time_aps) \subseteq ProgressKeys(all_time_aps')
       /\ \A k \in ProgressKeys(all_time_aps') :
            LET old == IF k \in ProgressKeys(all_time_aps)
                       THEN all_time_aps[k] ELSE NewProgress
                new == all_time_aps'[k]
            IN /\ new.total_processed_estimate =
                     old.total_processed_estimate
                       + DropOf(old.last_current_converting, new.last_current_converting)
               /\ new.total_processed_estimate >= old.total_processed_estimate]_vars

\* a drop from 2 to 0 was counted, the rise to 1 that followed was not
C11_Witness ==
    /\ m_pc = "m_sleep" /\ check_count = 3
    /\ 2 \in ProgressKeys(all_time_aps)
    /\ all_time_aps[2].total_processed_estimate = 2
    /\ all_time_aps[2].last_current_converting = 1

\* C12: a controller whose fetch fails gets the entry 'Offline/Error' with
\* count 0 and adds nothing to the cycle; the poll goes on with the next
\* controller of the same list; every cycle starts with an empty status table
\* and has an entry for every controller of the list when the polling is over.
C12_OfflineForThatCycleOnly ==
    /\ [](\A k \in DOMAIN controller_status :
            controller_status[k].status = "Offline/Error"
                => controller_status[k].count = 0)
    /\ [](m_pc = "m_poll" =>
            DOMAIN controller_status =
                { mon_controllers[i].name : i \in 1..(cidx - 1) })
    /\ [](m_pc \in {"m_diff", "m_sleep"} =>
            DOMAIN controller_status = NamesOf(mon_controllers))
    /\ [][(/\ m_pc = "m_poll"
           /\ Has(controller_status', mon_controllers[cidx].name)
           /\ controller_status'[mon_controllers[cidx].name].status = "Offline/Error")
          => /\ m_pc' \in {"m_poll", "m_diff"}
             /\ cidx' = cidx + 1
             /\ mon_controllers' = mon_controllers
             /\ current_converting' = current_converting
             /\ all_time_aps' = all_time_aps]_vars

\* controller 1 has answered in neither cycle, was polled again in the second,
\* and controller 2 was polled after it
C12_Witness ==
    /\ m_pc = "m_diff" /\ check_count = 2
    /\ ~ Has(all_time_aps, 1)
    /\ Has(controller_status, 1) /\ controller_status[1].status = "Offline/Error"
    /\ Has(controller_status, 2) /\ controller_status[2].status = "Online"
    /\ controller_status[2].count = 1

\* C13: when the monitor has ended, the final summary has its tracked,
\* completed and still-converting lines.
C13_SummaryAlwaysFull ==
    m_pc = "m_done" =>
        /\ DOMAIN final_summary = {"tracked", "completed", "converting"}
        /\ final_summary.tracked = Cardinality(DOMAIN all_time_aps)
        /\ final_summary.completed = Cardinality(completed_aps)
        /\ final_summary.converting = Cardinality(current_converting)

\* C14: when the operator's interrupt has ended the loop, the last cycle that
\* started has polled every controller and made its diff.
C14_CancelOnlyAtTop ==
    m_pc = "m_interrupted" =>
        \/ check_count = 0
        \/ /\ converting_bound
           /\ DOMAIN controller_status = NamesOf(mon_controllers)
           /\ previous_converting = current_converting

\* C15: the list of polled controllers is set when the monitor starts, to the
\* controllers whose stored membership is the selected cluster, in directory
\* order; no later step changes it, and every finished poll of a cycle has
\* asked exactly the controllers of that list.
C15_HostsResolvedOnce ==
    /\ [][(m_pc = "m_off" /\ m_pc' # "m_off") =>
            /\ NamesOf(mon_controllers') =
                 { dbControllers[j].name :
                     j \in { i \in 1..Len(dbControllers) : dbClusters[i] = selected_cluster } }
            /\ \A a, b \in 1..Len(mon_controllers') :
                 a < b => mon_controllers'[a].id < mon_controllers'[b].id]_vars
    /\ [][m_pc # "m_off" => mon_controllers' = mon_controllers]_vars
    /\ [](m_pc \in {"m_diff", "m_sleep"} =>
            /\ cidx = Len(mon_controllers) + 1
            /\ DOMAIN controller_status = NamesOf(mon_controllers))

\* the second cycle of a run on cluster B, which has fewer controllers than
\* the directory
C15_Witness ==
    /\ m_pc = "m_sleep" /\ check_count = 2
    /\ selected_cluster = "B"
    /\ mon_controllers # <<>>
    /\ Len(mon_controllers) < Len(dbControllers)

\* ===================================================== claims, sessions
HostPcs ==
    {"i_connect", "i_cmd", "i_y", "i_close", "i_summary", "i_done",
     "a_connect", "a_cmd", "a_close", "a_summary", "a_done"}
ConnectPcs == {"p_connect", "c1_connect", "c2_connect", "i_connect", "a_connect"}
HostSendPcs == {"i_cmd", "i_y", "a_cmd"}
\* the places of cleanup, convert-init and add-AP-group where a session is held
HeldPcs ==
    Phase1SendPcs \cup Phase2SendPcs \cup HostSendPcs
        \cup {"c1_close", "c2_close", "i_close", "a_close"}
\* the host the workflow is working on
CurrentHost ==
    IF pc \in Phase2SendPcs \cup {"c2_connect", "c2_close"} \cup PrepPcs
    THEN MM ELSE MC(controllers[idx].name)

C17_CleanupReachesSummary ==
    /\ (pc \in CleanPcs \ {"c_done"}) ~>
          (pc = "c_done" /\ report.workflow = "cleanup"
                         /\ report.total = Len(controllers))
    /\ [](pc \in Phase1SendPcs \cup {"c1_close"} => Len(sent) <= 4)
    /\ [](pc \in Phase2SendPcs \cup {"c2_close"} =>
            Len(sent) <= 9 * Len(clusters_info) + 1)

\* the summary of a cleanup in which every controller failed
C17_Witness ==
    /\ pc = "c_done" /\ report.workflow = "cleanup"
    /\ report.success = 0
    /\ Len(report.failed) = Len(controllers)
    /\ Len(controllers) = 2

\* C18: get_available_clusters lists, once each, the stored cluster names
\* other than 'Unknown'; get_all_cluster_names_including_unknown lists every
\* stored name, 'Unknown' included.
C18_AvailableExcludesUnknown ==
    /\ Range(get_available_clusters) = Range(dbClusters) \ {Unknown, NoRow}
    /\ Len(get_available_clusters) = Cardinality(Range(get_available_clusters))
    /\ Range(get_all_cluster_names_including_unknown) = Range(dbClusters) \ {NoRow}

\* a directory with cluster A and an 'Unknown' membership, A selected
C18_Witness ==
    /\ pc = "idle" /\ selected_cluster = "A"
    /\ Unknown \in Range(dbClusters)
    /\ get_available_clusters = <<"A">>
    /\ Unknown \in Range(get_all_cluster_names_including_unknown)

\* ===================================================== claims, read_ssh_output
RECURSIVE DecodedUpTo(_)
\* the decoded text of the first n chunks of the stream
DecodedUpTo(n) ==
    IF n = 0 THEN <<>> ELSE DecodedUpTo(n - 1) \o decode(r_stream[n])
Terminates(n) == \E i \in 1..Len(r_stream[n]) : r_stream[n][i] \in {"#", ">"}

\* C19: the text returned is the decoded chunks read so far, in order; no
\* chunk read before the last one had a prompt character; the loop goes on
\* only while the last chunk read had none; it has ended either on a chunk
\* with a prompt character or with the ceiling reached; no chunk is read
\* once the ceiling is reached; the call ends.
C19_ReadUntilPromptOrCeiling ==
    /\ [](r_pc \in {"r_loop", "r_done"} => r_output = DecodedUpTo(r_next - 1))
    /\ [](\A n \in 1..(r_next - 2) : ~ Terminates(n))
    /\ [](r_pc = "r_loop" => (r_next = 1 \/ ~ Terminates(r_next - 1)))
    /\ [](r_pc = "r_done" =>
            \/ r_next > 1 /\ Terminates(r_next - 1)
            \/ r_elapsed >= Ceiling)
    /\ [][r_next' > r_next => r_elapsed < Ceiling]_vars
    /\ <>(r_pc = "r_done")

\* two chunks read, the second one with a prompt, the third one left unread
C19_Witness ==
    /\ r_pc = "r_done" /\ r_next = 3 /\ Len(r_stream) = 3
    /\ r_stream[1] = <<"bad">> /\ Terminates(2)
    /\ r_elapsed < Ceiling

\* ===================================================== claims, ssh_to_mm
\* C20: no connection failure ends the process; after a failed connection
\* prepare ends without a new target, Phase 1 records the controller as
\* failed and goes to the next one, Phase 2 goes to the clearing and the
\* summary, convert-init and add-AP-group go to the next controller; the
\* failed attempt is not repeated and leaves no connection open; no controller
\* is tried twice in a run.
C20_NoSessionIsSkipped ==
    /\ [](pc # "aborted")
    /\ [](Len(attempted) = Cardinality(Range(attempted)))
    /\ [][(pc \in ConnectPcs /\ session' = NoSession) =>
            /\ open_sessions' = open_sessions
            /\ pc = "p_connect" =>
                  pc' = "p_done" /\ prep_migration_target' = prep_migration_target
            /\ pc = "c1_connect" =>
                  /\ idx' = idx + 1
                  /\ pc' = (IF idx < Len(controllers) THEN "c1_connect" ELSE "c2_targets")
                  /\ failed_controllers' =
                        Append(failed_controllers, controllers[idx].name)
            /\ pc = "c2_connect" => pc' = "c_clear"
            /\ pc \in {"i_connect", "a_connect"} =>
                  /\ idx' = idx + 1
                  /\ success_count' = success_count
                  /\ pc' \in {"i_connect", "i_summary", "a_connect", "a_summary"}]_vars

\* Phase 1 after a failed connection to the first controller: the second
\* one is connected
C20_Witness ==
    /\ pc = "c1_clear" /\ idx = 2
    /\ failed_controllers = <<controllers[1].name>>
    /\ attempted = <<controllers[1].name, controllers[2].name>>
    /\ session = MC(controllers[2].name)

\* ============================================== parse_ap_convert_status
\* A line of '_data' is its tokens, in order, separated by single blanks; the
\* empty sequence is a blank line.
Tokens == {"ap1", "aa:bb", "Upgrading", "Total", "APs", "AP", "Name", "Status", "Completed"}
MaxTokens == 4
RECURSIVE LinesUpTo(_)
LinesUpTo(n) ==
    IF n = 0 THEN { <<>> }
    ELSE LinesUpTo(n - 1) \cup
         { Append(l, t) : l \in { x \in LinesUpTo(n - 1) : Len(x) = n - 1 }, t \in Tokens }

\* substring containment between a token and a word
TokenHas(tok, word) == tok = word \/ (tok = "APs" /\ word = "AP")
StartsWith(tok, word) == tok = word \/ (tok = "APs" /\ word = "AP")
EndsWith(tok, word) == tok = word

\* keyword in line, for a keyword of one word or of two words and a blank
Contains(line, kw) ==
    IF Len(kw) = 1
    THEN \E i \in 1..Len(line) : TokenHas(line[i], kw[1])
    ELSE \E i \in 1..(Len(line) - 1) :
            EndsWith(line[i], kw[1]) /\ StartsWith(line[i + 1], kw[2])

\* the header and summary lines that are skipped
M_SkipTexts_NoStatus ==
    { <<"AP", "Name">>, <<"------">>, <<"Total", "APs">>,
      <<"No", "APs">>, <<"AP", "Group">>, <<"AP", "Mac">> }
SkipTexts ==
    { <<"AP", "Name">>, <<"------">>, <<"Status">>, <<"Total", "APs">>,
      <<"No", "APs">>, <<"AP", "Group">>, <<"AP", "Mac">> }
SummaryTexts == {"Total", "Completed", "Failed", "In-Progress"}

\* the record of a text line: parts[0], parts[1], parts[2], the rest
LineRecord(parts) ==
    [name |-> parts[1], mac |-> parts[2], status |-> parts[3],
     progress |-> SubSeq(parts, 4, Len(parts))]

\* the records of the '_data' lines, in order
RECURSIVE ParseLines(_)
ParseLines(lines) ==
    IF lines = <<>> THEN <<>>
    ELSE LET line == Head(lines)
             taken ==
                /\ line # <<>>
                /\ ~ \E kw \in SkipTexts : Contains(line, kw)
                /\ Len(line) >= 3
                /\ ~ \E w \in SummaryTexts : TokenHas(line[1], w)
         IN (IF taken THEN <<LineRecord(line)>> ELSE <<>>) \o ParseLines(Tail(lines))

\* an entry of 'AP Image Conversion Status': a dict, or something else
Dict(items) == [is_dict |-> TRUE, items |-> items]
NotADict == [is_dict |-> FALSE, items |-> <<>>]
Get(d, key, default) == IF key \in DOMAIN d THEN d[key] ELSE default
Entries ==
    { Dict(("AP Name" :> "ap1") @@ ("AP Mac" :> "aa:bb")
             @@ ("Upgrade State" :> "Upgrading") @@ ("Start Time" :> "t0")),
      Dict(("AP Name" :> "ap2") @@ ("Failure Reason" :> "timeout")),
      NotADict }

EntryRecord(e) ==
    [name |-> Get(e.items, "AP Name", "Unknown"),
     mac |-> Get(e.items, "AP Mac", "Unknown"),
     status |-> Get(e.items, "Upgrade State", "Unknown"),
     progress |-> IF Get(e.items, "Failure Reason", "") # ""
                  THEN Get(e.items, "Failure Reason", "") ELSE "In Progress",
     start_time |-> Get(e.items, "Start Time", "Unknown")]

\* the records of the structured entries, in order
RECURSIVE ParseEntries(_)
ParseEntries(entries) ==
    IF entries = <<>> THEN <<>>
    ELSE (IF Head(entries).is_dict THEN <<EntryRecord(Head(entries))>> ELSE <<>>)
            \o ParseEntries(Tail(entries))

StatusKey == "AP Image Conversion Status"
DataKey == "_data"

\* the AP list returned for a payload
parse_ap_convert_status(data) ==
    (IF StatusKey \in DOMAIN data THEN ParseEntries(data[StatusKey]) ELSE <<>>)
      \o (IF DataKey \in DOMAIN data THEN ParseLines(data[DataKey]) ELSE <<>>)

EntryLists ==
    { <<>> } \cup { <<e>> : e \in Entries } \cup { <<e, NotADict>> : e \in Entries }
DataLists(n) ==
    { <<>> } \cup { <<l>> : l \in LinesUpTo(n) }
             \cup { <<l, l>> : l \in LinesUpTo(n) }

\* the payloads: with and without each of the two keys, the text lines of
\* at most n tokens
ParsePayloads(n) ==
    { <<>> }
      \cup { (StatusKey :> es) : es \in EntryLists }
      \cup { (DataKey :> ls) : ls \in DataLists(n) }
      \cup { (StatusKey :> es) @@ (DataKey :> ls) : es \in EntryLists, ls \in DataLists(n) }

ParseCall ==
    /\ parse_pc = "called"
    /\ converting_aps' = parse_ap_convert_status(convert_status_data)
    /\ parse_pc' = "returned"
    /\ UNCHANGED <<orchVars, monVars, readVars, storeVars, trackVars, connVars,
                   convert_status_data>>

\* one call of parse_ap_convert_status on any payload
InitParse ==
    /\ stored_md_switches = <<>> /\ dbControllers = <<>> /\ dbClusters = <<>>
    /\ dbApGroups = <<>> /\ selected_cluster = "" /\ selected_ap_groups = <<>>
    /\ prep_migration_target = NoneTarget /\ discoveries = 0
    /\ pc = "idle" /\ IdleLocals
    /\ lastOp = "other" /\ dbAtPrep = <<>>
    /\ MonitorOff
    /\ ReadOff
    /\ convert_status_data \in ParsePayloads(MaxTokens)
    /\ converting_aps = <<>> /\ parse_pc = "called"
    /\ lc_clusters = <<>> /\ latest = <<>>
    /\ TrackOff /\ ConnOff

SpecParse == InitParse /\ [][ParseCall]_vars

\* ===================================================== store_lc_cluster
\* the controller ids of table controllers, and what a membership holds
StoreIds == 1..(MaxControllers + 1)
Memberships == [cluster_name : ClusterNames \cup {Unknown}, is_leader : BOOLEAN]

\* DELETE FROM lc_clusters WHERE controller_id = ?
M_DeleteRows_None(rows, id) == rows
DeleteRows(rows, id) ==
    LET others(r) == r.controller_id # id IN SelectSeq(rows, others)

\* INSERT INTO lc_clusters (controller_id, cluster_name, is_leader, ...)
InsertRow(rows, id, info) ==
    Append(rows, [controller_id |-> id, cluster_name |-> info.cluster_name,
                  is_leader |-> info.is_leader])

\* one call of store_lc_cluster(controller_id, cluster_info)
StoreCall ==
    /\ parse_pc = "store"
    /\ \E id \in StoreIds, info \in Memberships :
        /\ lc_clusters' = InsertRow(DeleteRows(lc_clusters, id), id, info)
        /\ latest' = Put(latest, id,
                         [cluster_name |-> info.cluster_name,
                          is_leader |-> info.is_leader,
                          deleted |-> Len(lc_clusters) - Len(DeleteRows(lc_clusters, id))])
    /\ UNCHANGED <<orchVars, monVars, readVars, parseVars, trackVars, connVars>>

\* any sequence of store_lc_cluster calls on an empty table
InitStore ==
    /\ stored_md_switches = <<>> /\ dbControllers = <<>> /\ dbClusters = <<>>
    /\ dbApGroups = <<>> /\ selected_cluster = "" /\ selected_ap_groups = <<>>
    /\ prep_migration_target = NoneTarget /\ discoveries = 0
    /\ pc = "idle" /\ IdleLocals
    /\ lastOp = "other" /\ dbAtPrep = <<>>
    /\ MonitorOff
    /\ ReadOff
    /\ convert_status_data = <<>> /\ converting_aps = <<>> /\ parse_pc = "store"
    /\ lc_clusters = <<>> /\ latest = <<>>
    /\ TrackOff /\ ConnOff

SpecStore == InitStore /\ [][StoreCall]_vars

\* ======================================= track_conversion_progress, alone
MaxCalls == 3
MaxConverting == 2

\* the conversion_summary that parse_ap_convert_status hands over: status,
\* counter, start time and AP groups are read from different parts of the
\* reply and do not depend on each other
Summaries ==
    [status : {"Active", "Idle", "Unknown"}, current_converting : 0..MaxConverting,
     start_time : {"t1", "t2"}, ap_groups : {<<>>, <<"g1">>}]

\* what the calls for one controller carried so far: the largest and the
\* latest counter, and the start time and groups of the first 'Active' one
NotSeen == [max |-> 0, last |-> 0, first |-> <<>>]

\* one call of track_conversion_progress on the dictionary of the calls
\* before it
TrackCall ==
    /\ parse_pc = "track" /\ track_calls < MaxCalls
    /\ \E name \in 1..MaxControllers, s \in Summaries :
        LET old == IF Has(track_seen, name) THEN track_seen[name] ELSE NotSeen
        IN /\ track_data' = track_conversion_progress(track_data, name, s).data
           /\ track_seen' = Put(track_seen, name,
                 [max |-> IF s.current_converting > old.max
                          THEN s.current_converting ELSE old.max,
                  last |-> s.current_converting,
                  first |-> IF old.first = <<>> /\ s.status = "Active"
                            THEN << <<s.start_time, s.ap_groups>> >>
                            ELSE old.first])
    /\ track_calls' = track_calls + 1
    /\ UNCHANGED <<orchVars, monVars, readVars, parseVars, storeVars, connVars>>

InitTrack ==
    /\ stored_md_switches = <<>> /\ dbControllers = <<>> /\ dbClusters = <<>>
    /\ dbApGroups = <<>> /\ selected_cluster = "" /\ selected_ap_groups = <<>>
    /\ prep_migration_target = NoneTarget /\ discoveries = 0
    /\ pc = "idle" /\ IdleLocals
    /\ lastOp = "other" /\ dbAtPrep = <<>>
    /\ MonitorOff
    /\ ReadOff
    /\ convert_status_data = <<>> /\ converting_aps = <<>> /\ parse_pc = "track"
    /\ lc_clusters = <<>> /\ latest = <<>>
    /\ TrackOff /\ ConnOff

SpecTrack == InitTrack /\ [][TrackCall]_vars

\* ====================================================== ssh_to_mm, inside
\* ssh_client.connect(...): it raises before the transport is up (refused,
\* timed out) or after it (authentication), or it returns
ConnConnect ==
    /\ k_pc = "k_connect"
    /\ \/ client_open' = TRUE /\ k_pc' = "k_shell"
       \/ client_open' \in BOOLEAN /\ k_pc' = "k_failed"
    /\ UNCHANGED <<orchVars, monVars, readVars, parseVars, storeVars, trackVars,
                   k_result>>

\* shell = ssh_client.invoke_shell(); shell.settimeout(10)
ConnShell ==
    /\ k_pc = "k_shell"
    /\ \/ k_pc' = "k_read" /\ r_pc' = "r_idle"
       \/ k_pc' = "k_failed" /\ UNCHANGED r_pc
    /\ UNCHANGED <<orchVars, monVars, parseVars, storeVars, trackVars,
                   r_stream, r_next, r_output, r_elapsed, client_open, k_result>>

\* recv raises inside read_ssh_output, which has no handler of its own
ConnReadRaises ==
    /\ k_pc = "k_read" /\ r_pc = "r_loop"
    /\ k_pc' = "k_failed" /\ r_pc' = "r_off"
    /\ UNCHANGED <<orchVars, monVars, parseVars, storeVars, trackVars,
                   r_stream, r_next, r_output, r_elapsed, client_open, k_result>>

\* print(output); return ssh_client, shell
ConnReturn ==
    /\ k_pc = "k_read" /\ r_pc = "r_done"
    /\ k_result' = "session" /\ k_pc' = "k_returned" /\ r_pc' = "r_off"
    /\ UNCHANGED <<orchVars, monVars, parseVars, storeVars, trackVars,
                   r_stream, r_next, r_output, r_elapsed, client_open>>

\* except Exception: print, return None, None. The handler does not call
\* ssh_client.close(); the client is then unreachable, and whether its
\* transport is torn down is left to the library and the collector
ConnExcept ==
    /\ k_pc = "k_failed"
    /\ k_result' = "none" /\ k_pc' = "k_returned"
    /\ client_open' \in {client_open, FALSE}
    /\ UNCHANGED <<orchVars, monVars, readVars, parseVars, storeVars, trackVars>>

ssh_to_mm_call ==
    \/ ConnConnect \/ ConnShell \/ read_ssh_output \/ ConnReadRaises
    \/ ConnReturn \/ ConnExcept

\* one call of ssh_to_mm to a host whose shell delivers any stream of at
\* most MaxChunks chunks
InitConnect ==
    /\ stored_md_switches = <<>> /\ dbControllers = <<>> /\ dbClusters = <<>>
    /\ dbApGroups = <<>> /\ selected_cluster = "" /\ selected_ap_groups = <<>>
    /\ prep_migration_target = NoneTarget /\ discoveries = 0
    /\ pc = "idle" /\ IdleLocals
    /\ lastOp = "other" /\ dbAtPrep = <<>>
    /\ MonitorOff
    /\ r_pc = "r_off" /\ r_stream \in Streams(MaxChunks) /\ r_next = 1
    /\ r_output = <<>> /\ r_elapsed = 0
    /\ convert_status_data = <<>> /\ converting_aps = <<>> /\ parse_pc = "off"
    /\ lc_clusters = <<>> /\ latest = <<>>
    /\ TrackOff
    /\ k_pc = "k_connect" /\ client_open = FALSE /\ k_result = "none"

SpecConnect == InitConnect /\ [][ssh_to_mm_call]_vars

\* ===================================================== claims, closing
\* the places of a workflow where it holds the session it opened
SessionPcs ==
    PrepSendPcs \cup {"p_fallback", "p_record", "p_close"} \cup HeldPcs

\* C21: a workflow holds exactly the session it opened while it sends, and
\* none at any other place: before a connect, between two hosts, at its
\* summary and when it returns, whether it got there by the normal end, by
\* an abort in the fallback of prepare or by a send that raised; a step that
\* leaves the sending part of a session goes to the close of that session.
C21_SessionsClosed ==
    /\ [](pc \in SessionPcs => open_sessions = {session} /\ session # NoSession)
    /\ [](pc \notin SessionPcs => open_sessions = {} /\ session = NoSession)
    /\ [][(pc \in SessionPcs /\ pc' \notin SessionPcs) =>
            /\ pc \in {"p_close", "c1_close", "c2_close", "i_close", "a_close"}
            /\ open_sessions' = open_sessions \ {session}]_vars

\* prepare has returned from an abort in its fallback: the last line sent was
\* the profile entry, nothing was disabled, the session is closed
C21_Witness ==
    /\ pc = "p_done" /\ sent # <<>>
    /\ Last(sent).cmd = "lc-cluster group-profile"
    /\ ~ in_cluster_context
    /\ open_sessions = {}

\* ===================================================== claims, fallback
DisablePcs == {"p_nolb", "p_nored", "p_exit1", "p_exit2", "p_write", "p_record"}
DisableCmds == {"no active-ap-lb", "no redundancy", "write memory"}

\* C22: a prepare run sends the profile entry at most twice (one retry, within
\* the three the claim allows), the fallback is entered at most once, and as
\* long as no profile-entry
\* response of the run carried an accepted marker the run is not in its
\* disabling part and has sent none of 'no active-ap-lb', 'no redundancy'
\* and 'write memory'; a retry whose response leaves the run without any
\* accepted marker goes to the close, and the target stays as it was.
C22_BoundedFallbackThenAbort ==
    /\ [](pc \in PrepPcs => Count("lc-cluster group-profile") <= 2)
    /\ [][pc' = "p_fallback" => pc = "p_profile"]_vars
    /\ []((pc \in PrepPcs /\ marked = {}) =>
            /\ pc \notin DisablePcs
            /\ \A i \in 1..Len(sent) : sent[i].cmd \notin DisableCmds
            /\ prep_migration_target = startTarget)
    /\ [][(pc \in {"p_f1_profile", "p_f2_profile"} /\ marked' = {}) =>
            pc' = "p_close"]_vars

\* the typed name of the fallback was refused too: the run has ended with
\* two profile entries sent and nothing disabled
C22_Witness ==
    /\ pc = "p_done" /\ marked = {}
    /\ Count("lc-cluster group-profile") = 2
    /\ Last(sent).cmd = "lc-cluster group-profile"
    /\ open_sessions = {}

\* ===================================================== claims, parsing
IsStructured(rec) == "start_time" \in DOMAIN rec
IsFromLine(rec) == ~ IsStructured(rec)
IsDictEntry(e) == e.is_dict

\* C23: for a payload whose 'AP Image Conversion Status' has entries, the list
\* returned has one record per entry and no record made from a '_data' line.
C23_StructuredExcludesLines ==
    (/\ parse_pc = "returned"
     /\ StatusKey \in DOMAIN convert_status_data
     /\ SelectSeq(convert_status_data[StatusKey], IsDictEntry) # <<>>)
        => /\ Len(converting_aps) =
                 Len(SelectSeq(convert_status_data[StatusKey], IsDictEntry))
           /\ \A i \in 1..Len(converting_aps) : IsStructured(converting_aps[i])

Denylist ==
    { <<"AP", "Name">>, <<"------">>, <<"Status">>, <<"Total", "APs">>,
      <<"No", "APs">>, <<"AP", "Group">>, <<"AP", "Mac">> }
SummaryKeywords == {"Total", "Completed", "Failed", "In-Progress"}
Yields(line) ==
    /\ \A kw \in Denylist : ~ Contains(line, kw)
    /\ Len(line) >= 3
    /\ \A w \in SummaryKeywords : ~ TokenHas(line[1], w)

\* C24: the records made from '_data' lines are, in order, those of the lines
\* that contain no denylist keyword, have at least three tokens and whose
\* first token contains no summary keyword; name, hardware address and state
\* of each are the first, second and third token of its line.
C24_LineRecords ==
    (parse_pc = "returned" /\ DataKey \in DOMAIN convert_status_data) =>
        LET recs == SelectSeq(converting_aps, IsFromLine)
            kept == SelectSeq(convert_status_data[DataKey], Yields)
        IN /\ Len(recs) = Len(kept)
           /\ \A k \in 1..Len(recs) :
                /\ recs[k].name = kept[k][1]
                /\ recs[k].mac = kept[k][2]
                /\ recs[k].status = kept[k][3]

\* a line of four tokens has given a record, a payload without structured
\* entries
C24_Witness ==
    /\ parse_pc = "returned"
    /\ DOMAIN convert_status_data = {DataKey}
    /\ convert_status_data[DataKey] = << <<"ap1", "aa:bb", "Upgrading", "Completed">> >>
    /\ Len(converting_aps) = 1
    /\ converting_aps[1].name = "ap1" /\ converting_aps[1].status = "Upgrading"

\* ===================================================== claims, Phase 2
\* C25: whatever the response to the profile entry of a restoration target,
\* the step after it sends 'redundancy' for that target and the one after
\* that 'active-ap-lb' (unless a send raises); the targets are entered one
\* after the other, none is left out, and the profile entry is sent once per
\* target, with no command of a fallback in between.
C25_UnconfirmedContextGoesOn ==
    /\ [][pc = "c2_profile" =>
            /\ pc' \in {"c2_red", "c2_close"}
            /\ pc' = "c2_red" =>
                  /\ Last(sent').cmd = "lc-cluster group-profile"
                  /\ Last(sent').arg = clusters_info[idx][1]
                  /\ idx' = idx]_vars
    /\ [][(pc = "c2_red" /\ pc' = "c2_lb") =>
            sent' = Append(sent, [cmd |-> "redundancy", arg |-> "", answered |-> TRUE,
                                  prompt |-> FALSE,
                                  error |-> Last(sent').error])]_vars
    /\ [][(pc = "c2_lb" /\ sent' # sent) =>
            /\ Last(sent').cmd = "active-ap-lb"
            /\ Last(sent).cmd = "redundancy"]_vars
    /\ [](pc \in Phase2SendPcs \ {"c2_final"} =>
            /\ idx \in 1..Len(clusters_info)
            /\ Count("change-config-node") \in {idx - 1, idx}
            /\ Count("lc-cluster group-profile") \in {idx - 1, idx}
            /\ Count("show lc-cluster group-membership") = 0)

\* the second of two targets: neither profile entry was confirmed, both
\* targets got the two re-enable commands
C25_Witness ==
    /\ pc = "c2_exit1" /\ idx = 2 /\ Len(clusters_info) = 2
    /\ ~ in_cluster_context
    /\ Count("redundancy") = 2 /\ Count("active-ap-lb") = 2
    /\ Last(sent).cmd = "active-ap-lb"

\* the replies of the re-enable commands sent for the target in hand: those
\* after the last 'change-config-node'
TargetStart ==
    CHOOSE i \in 1..Len(sent) :
        /\ sent[i].cmd = "change-config-node"
        /\ \A j \in (i + 1)..Len(sent) : sent[j].cmd # "change-config-node"
ReEnableFailed ==
    \E j \in TargetStart..Len(sent) : sent[j].cmd \in ErrorTested /\ sent[j].error

\* C26: a restoration target for which 'redundancy' or 'active-ap-lb' was
\* answered with an error marker is not marked as restored when its exits and
\* its save are sent and its result line is printed.
C26_ErrorIsReflected ==
    (pc \in {"c2_exit1", "c2_exit2", "c2_write"} /\ ReEnableFailed)
        => ~ lc_restoration_success

\* ===================================================== claims, Phase 1
\* C27: in Phase 1 a reply without the confirmation phrase lets the run go
\* on with the next command, and after 'ap convert cancel' counts the
\* controller as a success; failed_controllers grows only when the
\* connection failed or a send raised, and then the controller is not counted.
C27_NoPhraseIsNoFailure ==
    /\ [][(/\ pc \in {"c1_clear", "c1_cancel"}
           /\ Len(sent') = Len(sent) + 1
           /\ Last(sent').answered /\ ~ Last(sent').prompt) =>
            /\ failed_controllers' = failed_controllers
            /\ pc' = (IF pc = "c1_clear" THEN "c1_cancel" ELSE "c1_close")
            /\ pc = "c1_cancel" =>
                  /\ success_count' = success_count + 1
                  /\ succeeded' = Append(succeeded, controllers[idx].name)]_vars
    /\ [][failed_controllers' # failed_controllers =>
            /\ pc' # "idle" => success_count' = success_count
            /\ \/ pc = "c1_connect" /\ session' = NoSession
               \/ /\ pc \in Phase1SendPcs /\ pc' = "c1_close"
                  /\ sent' = sent \/ ~ Last(sent').answered
               \/ pc = "c_done"]_vars
    /\ [](pc = "c1_close" =>
            (controllers[idx].name \in Range(succeeded))
                # (controllers[idx].name \in Range(failed_controllers)))

\* both commands were answered without the phrase: two lines sent, the
\* controller is counted
C27_Witness ==
    /\ pc = "c1_close" /\ Len(sent) = 2
    /\ ~ sent[1].prompt /\ ~ sent[2].prompt
    /\ sent[1].answered /\ sent[2].answered
    /\ sent[2].cmd = "ap convert cancel"
    /\ success_count = 1 /\ failed_controllers = <<>>

\* ===================================================== claims, store
RowsOf(rows, id) == { i \in 1..Len(rows) : rows[i].controller_id = id }

\* C28: after any calls of store_lc_cluster a controller has no row if no
\* call was made for it and else exactly one, which holds what the latest
\* call for it wrote; a call leaves the rows of every other controller as
\* they were, in their order.
C28_OneMembershipLatestWins ==
    /\ [](\A id \in StoreIds :
            IF Has(latest, id)
            THEN /\ Cardinality(RowsOf(lc_clusters, id)) = 1
                 /\ \A i \in RowsOf(lc_clusters, id) :
                      /\ lc_clusters[i].cluster_name = latest[id].cluster_name
                      /\ lc_clusters[i].is_leader = latest[id].is_leader
            ELSE RowsOf(lc_clusters, id) = {})
    /\ [][lc_clusters' # lc_clusters =>
            LET id == Last(lc_clusters').controller_id
            IN DeleteRows(lc_clusters', id) = DeleteRows(lc_clusters, id)]_vars

\* controller 1 was stored twice, with controller 2 in between: its row is
\* the second membership, after the row of controller 2
C28_Witness ==
    /\ Len(lc_clusters) = 2
    /\ lc_clusters[1].controller_id = 2 /\ lc_clusters[1].cluster_name = "A"
    /\ lc_clusters[2].controller_id = 1 /\ lc_clusters[2].cluster_name = "B"
    /\ Has(latest, 1) /\ latest[1].cluster_name = "B" /\ latest[1].deleted = 1

\* ===================================================== claims, targets
\* C29: a cluster whose redundancy a completed prepare run disabled, and
\* which no cleanup has restored since, is among the restoration targets of
\* the next cleanup: when a later prepare run ends, the target that was
\* recorded before it is still one of the targets.
C29_EveryDisabledClusterIsTarget ==
    (pc \in {"p_close", "p_done"} /\ startTarget # NoneTarget) =>
        <<startTarget.cluster_name, startTarget.nodepath>> \in Range(RestorationTargets)

\* ===================================================== claims, completion
\* C30: an AP is reclassified as completed in a cycle only if the controller
\* it was seen on answered the status request of that cycle.
C30_CompletedOnlyIfPolled ==
    m_pc = "m_sleep" =>
        \A a \in cycle_before \ current_converting :
            /\ Has(controller_status, all_time_aps[a].controller)
            /\ controller_status[all_time_aps[a].controller].status = "Online"

\* ===================================================== claims, counters
\* C31: at the end of every monitor cycle no AP is both in completed_aps and
\* in that cycle's current_converting set.
C31_CompletedAndConvertingDisjoint ==
    m_pc = "m_sleep" => completed_aps \cap current_converting = {}

\* ===================================================== claims, summary
\* C32: the cleanup summary names a targeted restoration exactly when
\* Phase 2 took the recorded target as its restoration target, and a full
\* restoration exactly when it took every known (cluster, nodepath) pair.
C32_SummaryNamesTheRestoration ==
    (pc = "c_done" /\ clusters_info # <<>>) =>
        /\ report.restoration = "targeted" <=> startTarget # NoneTarget
        /\ report.restoration = "full" <=> startTarget = NoneTarget

\* C33: a cleanup in which no controller succeeded in Phase 1 ends with
\* prep_migration_target and selected_ap_groups as they were at its start,
\* whatever Phase 2 did; so does one that was cancelled at the confirmation
\* or found no controllers.
C33_NoSuccessKeepsIntent ==
    (pc = "c_done" /\ success_count = 0) =>
        /\ prep_migration_target = startTarget
        /\ selected_ap_groups = startGroups

\* every controller failed in Phase 1, Phase 2 re-enabled the recorded
\* cluster and saved: the target and the groups are still there
C33_Witness ==
    /\ pc = "c_done" /\ success_count = 0 /\ Len(failed_controllers) = MaxControllers
    /\ lc_restoration_success /\ Count("write memory") = 1
    /\ prep_migration_target # NoneTarget /\ prep_migration_target = startTarget
    /\ selected_ap_groups # <<>>

\* ===================================================== claims, failed fetch
HasProgress(d, k) == Has(d, k) /\ "peak_converting" \in DOMAIN d[k]

\* C34: a status fetch that fails leaves all_time_aps, and with it the
\* progress record of the controller, as it was; a fetch that succeeds for a
\* controller that has a record adds to its total_processed_estimate the drop
\* from the record's last_current_converting, the counter of the last fetch
\* that succeeded.
C34_FailedFetchKeepsProgress ==
    [][m_pc = "m_poll" /\ cidx' = cidx + 1 =>
         LET name == mon_controllers[cidx].name
         IN IF controller_status'[name].status = "Offline/Error"
            THEN all_time_aps' = all_time_aps
            ELSE HasProgress(all_time_aps, name) =>
                   /\ HasProgress(all_time_aps', name)
                   /\ all_time_aps'[name].total_processed_estimate =
                        all_time_aps[name].total_processed_estimate +
                        DropOf(all_time_aps[name].last_current_converting,
                               all_time_aps'[name].last_current_converting)]_vars

\* the fetch of a controller failed in a cycle after one in which it had
\* reported converting APs: its record still holds that counter
C34_Witness ==
    /\ m_pc = "m_sleep" /\ check_count = 2
    /\ \E k \in 1..Len(mon_controllers) :
         LET name == mon_controllers[k].name
         IN /\ controller_status[name].status = "Offline/Error"
            /\ HasProgress(all_time_aps, name)
            /\ all_time_aps[name].last_current_converting = 2
            /\ all_time_aps[name].peak_converting = 2

\* ===================================================== claims, tracked APs
\* the AP names that a snapshot has listed so far
ObservedAps == completed_aps \cup previous_converting \cup current_converting

\* C35: after every monitor cycle all_time_aps has as many entries as AP
\* names were observed so far, and the final summary announces that all
\* access points have completed exactly when at least one AP was observed
\* and every observed AP is in completed_aps.
C35_TrackedCountsObservedAps ==
    /\ m_pc = "m_sleep" => Cardinality(DOMAIN all_time_aps) = Cardinality(ObservedAps)
    /\ m_pc = "m_done" =>
         (AllCompletedMessage <=> (ObservedAps # {} /\ ObservedAps \subseteq completed_aps))

\* ===================================================== claims, connecting
\* C36: when ssh_to_mm has returned (None, None) no connection of its client
\* to the host is open.
C36_NoSessionNoConnection ==
    (k_pc = "k_returned" /\ k_result = "none") => ~ client_open

\* ===================================================== claims, progress
\* C38: in the progress record of a controller conversion_started never
\* goes back to false; start_time and ap_groups are those of the first call
\* whose status was 'Active' and stay as they are from then on; after every
\* call peak_converting is the largest current_converting of the calls so
\* far and not less than last_current_converting, the counter of the latest.
C38_ProgressRecord ==
    /\ [](\A name \in DOMAIN track_data :
            LET rec == track_data[name]
                seen == track_seen[name]
            IN /\ rec.conversion_started <=> seen.first # <<>>
               /\ IF seen.first # <<>>
                  THEN <<rec.start_time, rec.ap_groups>> = seen.first[1]
                  ELSE rec.start_time = "None" /\ rec.ap_groups = <<>>
               /\ rec.peak_converting = seen.max
               /\ rec.last_current_converting = seen.last
               /\ rec.peak_converting >= rec.last_current_converting)
    /\ [][\A name \in DOMAIN track_data :
            track_data[name].conversion_started =>
               /\ track_data'[name].conversion_started
               /\ track_data'[name].start_time = track_data[name].start_time
               /\ track_data'[name].ap_groups = track_data[name].ap_groups]_vars

\* three calls for controller 1: idle with two converting, active with one
\* and start t1, active again with none and start t2
C38_Witness ==
    /\ track_calls = 3 /\ Has(track_data, 1)
    /\ track_seen[1] = [max |-> 2, last |-> 0, first |-> << <<"t1", <<"g1">> >> >>]
    /\ track_data[1].start_time = "t1" /\ track_data[1].peak_converting = 2
    /\ track_data[1].total_processed_estimate = 2

\* ===================================================== claims, AP groups
\* C37: selected_ap_groups never holds a group twice; it is emptied only by
\* a change of the selected cluster or by the clearing of a cleanup, and
\* every change of the selected cluster empties it; it grows only by one
\* group of the selected cluster that it does not hold yet, while the
\* selection stays as it is. So it holds only groups added since the
\* current cluster was selected.
C37_GroupsOfSelectedCluster ==
    /\ [](Distinct(selected_ap_groups) = selected_ap_groups)
    /\ [][selected_cluster' # selected_cluster => selected_ap_groups' = <<>>]_vars
    /\ [][selected_ap_groups' # selected_ap_groups =>
            \/ /\ selected_ap_groups' = <<>>
               /\ selected_cluster' # selected_cluster \/ pc = "c_clear"
            \/ /\ selected_cluster' = selected_cluster
               /\ pc = "a_summary"
               /\ \E g \in ClusterApGroups \ Range(selected_ap_groups) :
                     selected_ap_groups' = Append(selected_ap_groups, g)]_vars

\* two groups were added under cluster B, after a cleanup that cleared the
\* recorded target, while another cluster could have been selected
C37_Witness ==
    /\ pc = "idle" /\ selected_cluster = "B" /\ Len(selected_ap_groups) = 2
    /\ Len(get_available_clusters) = 2 /\ prep_migration_target = NoneTarget

====
